---- MODULE Spec2Model ----
(***************************************************************************)
(* Verification model of prateek/heaplens.                                 *)
(*                                                                         *)
(*   graph/      Dominators, DominatorTree, RetainedSize over a MemGraph    *)
(*   heapdump/   GoHeapParser (graph builder), StreamingParser, JSONStub,   *)
(*               the parser registry (Open)                                 *)
(*                                                                         *)
(* Go maps are modelled as functions with a growing DOMAIN; a read of a     *)
(* missing key yields the zero value, as in Go (operator Get).  Go slices   *)
(* are 0-based: slice index i is element i+1 of the TLA+ sequence.          *)
(***************************************************************************)
EXTENDS Integers, Sequences, FiniteSets, TLC

VARIABLES
    pc,        \* which specification runs and where its driver stands
    graph,     \* the graph.Graph handed to the algorithms / built by a parser
    idom,      \* result of Dominators(g)
    retained,  \* result of RetainedSize(g)
    input,     \* the reader handed to Open / Parse: a binary dump or a JSON document
    gp,        \* fields of goheap.parser (GoHeapParser's internal state)
    sp,        \* fields of goheap.StreamingParser
    calls,     \* the callbacks StreamingParser.Parse has invoked, in order
    result,    \* what Open / Parse returned: the adapter chosen and the error
    reporter,  \* the progress goroutine of StreamingParser.Parse and the callback in flight
    paths,     \* result of PathsToRoots(g, from, maxPaths)
    parserRegistry,  \* heapdump's registry: its lock and its parsers
    threads    \* the threads calling Register and Open, and where each stands

vars == <<pc, graph, idom, retained, input, gp, sp, calls, result, reporter, paths,
          parserRegistry, threads>>

(***************************************************************************)
(* Bounds of the model.                                                    *)
(***************************************************************************)
MaxObjects == 3     \* objects in a generated graph
MaxPtrs    == 2     \* entries in one pointer list
MaxRoots   == 2     \* entries in Roots.IDs
MaxEdges   == 4     \* entries in all pointer lists of a graph together

(***************************************************************************)
(* Generic helpers.                                                        *)
(***************************************************************************)
\* Go map read: the zero value when the key is absent.
Get(m, k, zero) == IF k \in DOMAIN m THEN m[k] ELSE zero

\* Go map write m[k] = v.
Put(m, k, v) == [x \in (DOMAIN m) \cup {k} |-> IF x = k THEN v ELSE m[x]]

\* delete(m, k)
Del(m, k) == [x \in (DOMAIN m) \ {k} |-> m[x]]

EmptyMap == [x \in {} |-> 0]

SeqsUpTo(S, n) == UNION {[1..k -> S] : k \in 0..n}

Range(s) == {s[k] : k \in DOMAIN s}

Perms(S) == {p \in [1..Cardinality(S) -> S] : Range(p) = S}

RECURSIVE SumOver(_, _)
SumOver(S, f) ==
    IF S = {} THEN 0
    ELSE LET x == CHOOSE y \in S : TRUE IN f[x] + SumOver(S \ {x}, f)

(***************************************************************************)
(* graph.MemGraph: objects (ID, Size, Ptrs) and Roots.IDs.                 *)
(* nilPtrs holds the objects whose Ptrs slice is nil rather than empty.    *)
(***************************************************************************)
SuperRootID == 0    \* the id Dominators and RetainedSize use for the super-root

NoGraph == [objs |-> {}, ptrs |-> EmptyMap, nilPtrs |-> {}, size |-> EmptyMap,
            roots |-> <<>>]

\* MemGraph.AddObject: g.objects[obj.ID] = obj
AddObject(g, id, size, ptrs) ==
    [g EXCEPT !.objs = @ \cup {id},
              !.ptrs = Put(@, id, ptrs),
              !.size = Put(@, id, size),
              !.nilPtrs = @ \ {id}]

\* MemGraph.SetRoots
SetRoots(g, ids) == [g EXCEPT !.roots = ids]

\* MemGraph.GetObject(id) # nil
HasObject(g, id) == id \in g.objs

\* Object sizes used by the generated graphs: distinct powers of two, so that
\* a sum of sizes identifies the set of objects it was taken over.
SizeOfId(id) == 2 ^ id

\* g is a graph with the ids first..first+n-1 whose pointer lists and roots
\* name existing objects.  Only the object with the super-root's id is tried
\* with a nil Ptrs slice: for every other object nil and empty read alike.
IsGraphFrom(g, first, n) ==
    LET ids == first .. (first + n - 1) IN
    \E p \in [ids -> SeqsUpTo(ids, MaxPtrs)] :
    \E r \in SeqsUpTo(ids, MaxRoots) :
    \E np \in {{}, {o \in {SuperRootID} \cap ids : p[o] = <<>>}} :
        /\ SumOver(ids, [o \in ids |-> Len(p[o])]) <= MaxEdges
        /\ g = [objs |-> ids, ptrs |-> p, nilPtrs |-> np,
                size |-> [o \in ids |-> SizeOfId(o)], roots |-> r]

\* First id 0: the numbering of GoHeapParser (nextObjID starts at 0).
\* First id 1: the numbering of the JSON fixtures and of the graph tests.
IsGeneratedGraph(g) ==
    \E first \in {0, 1} : \E n \in 0..MaxObjects : IsGraphFrom(g, first, n)

(***************************************************************************)
(* Dominators (Lengauer-Tarjan).  d is the record of the function's        *)
(* locals: adj, dfsNum, vertex, parent, dfnum, semi, ancestor, idom,       *)
(* samedom, best, bucket.  allObjects is the order in which ForEachObject   *)
(* delivered the objects (Go map iteration order).                         *)
(***************************************************************************)
\* adj: the super-root entry first, then one entry per object with non-nil
\* Ptrs; a later write to the same key replaces the earlier one.
RECURSIVE BuildAdj(_, _, _, _)
BuildAdj(g, allObjects, k, adj) ==
    IF k > Len(allObjects) THEN adj
    ELSE LET o == allObjects[k] IN
         BuildAdj(g, allObjects, k + 1,
                  IF o \in g.nilPtrs THEN adj ELSE Put(adj, o, g.ptrs[o]))

InitAdj(g) ==
    IF Len(g.roots) > 0 THEN Put(EmptyMap, SuperRootID, g.roots) ELSE EmptyMap

DomLocals(g, allObjects) ==
    [adj      |-> BuildAdj(g, allObjects, 1, InitAdj(g)),
     dfsNum   |-> 0,
     vertex   |-> <<>>,
     parent   |-> EmptyMap,
     dfnum    |-> EmptyMap,
     semi     |-> EmptyMap,
     ancestor |-> EmptyMap,
     idom     |-> EmptyMap,
     samedom  |-> EmptyMap,
     best     |-> EmptyMap,
     bucket   |-> EmptyMap]

\* vertex[i] of the Go slice
VertexAt(d, i) == d.vertex[i + 1]

RECURSIVE dfs(_, _, _)
RECURSIVE dfsEach(_, _, _)
dfs(v, p, d) ==
    IF v \in DOMAIN d.dfnum THEN d
    ELSE dfsEach(v, 1, [d EXCEPT !.dfnum    = Put(@, v, d.dfsNum),
                                 !.vertex   = Append(@, v),
                                 !.parent   = Put(@, v, p),
                                 !.semi     = Put(@, v, d.dfsNum),
                                 !.ancestor = Put(@, v, -1),
                                 !.best     = Put(@, v, v),
                                 !.samedom  = Put(@, v, v),
                                 !.dfsNum   = @ + 1])

\* "for _, w := range adj[v] { dfs(w, dfnum[v]) }", from the k-th entry on
dfsEach(v, k, d) ==
    IF k > Len(Get(d.adj, v, <<>>)) THEN d
    ELSE dfsEach(v, k + 1, dfs(Get(d.adj, v, <<>>)[k], d.dfnum[v], d))

\* compress, after the recursive call returned d1
compressUpdate(v, ancID, d1) ==
    [d1 EXCEPT
        !.best = IF Get(d1.semi, Get(d1.best, ancID, 0), 0)
                      < Get(d1.semi, Get(d1.best, v, 0), 0)
                 THEN Put(@, v, Get(d1.best, ancID, 0))
                 ELSE @,
        !.ancestor = Put(@, v, Get(d1.ancestor, ancID, 0))]

RECURSIVE compress(_, _)
RECURSIVE compressVia(_, _, _)
compress(v, d) ==
    IF Get(d.ancestor, v, 0) = -1 THEN d
    ELSE compressVia(v, VertexAt(d, Get(d.ancestor, v, 0)), d)

compressVia(v, ancID, d) ==
    IF Get(d.ancestor, ancID, 0) # -1
    THEN compressUpdate(v, ancID, compress(ancID, d))
    ELSE d

\* eval returns a vertex and may compress paths: the result is [d, u].
evalBest(v, d1) == [d |-> d1, u |-> Get(d1.best, v, 0)]

eval(v, d) ==
    IF Get(d.ancestor, v, 0) = -1 THEN [d |-> d, u |-> v]
    ELSE evalBest(v, compress(v, d))

link(v, w, d) == [d EXCEPT !.ancestor = Put(@, v, w)]

\* "if (*semi)[u] < (*semi)[w] { (*semi)[w] = (*semi)[u] }", e = [d, u]
lowerSemi(w, e) ==
    IF Get(e.d.semi, e.u, 0) < Get(e.d.semi, w, 0)
    THEN [e.d EXCEPT !.semi = Put(@, w, Get(e.d.semi, e.u, 0))]
    ELSE e.d

processEdge(v, w, d) ==
    IF v \notin DOMAIN d.dfnum THEN d
    ELSE lowerSemi(w, IF d.dfnum[v] <= Get(d.dfnum, w, 0)
                      THEN [d |-> d, u |-> v]
                      ELSE eval(v, d))

\* The ids v for which processEdge(v, w) is called, in call order: one per
\* occurrence of w in the Ptrs of each object of allObjects, then one per
\* occurrence of w in adj[0].
Occurrences(s, w) == Len(SelectSeq(s, LAMBDA x : x = w))

RECURSIVE Repeat(_, _)
Repeat(x, n) == IF n = 0 THEN <<>> ELSE <<x>> \o Repeat(x, n - 1)

RECURSIVE ObjectPreds(_, _, _, _)
ObjectPreds(g, allObjects, k, w) ==
    IF k > Len(allObjects) THEN <<>>
    ELSE Repeat(allObjects[k], Occurrences(g.ptrs[allObjects[k]], w))
         \o ObjectPreds(g, allObjects, k + 1, w)

PredCalls(g, allObjects, d, w) ==
    ObjectPreds(g, allObjects, 1, w)
    \o Repeat(SuperRootID, Occurrences(Get(d.adj, SuperRootID, <<>>), w))

RECURSIVE ProcessEdges(_, _, _, _)
ProcessEdges(vs, k, w, d) ==
    IF k > Len(vs) THEN d
    ELSE ProcessEdges(vs, k + 1, w, processEdge(vs[k], w, d))

\* Step 3 for one vertex v of bucket[parent[w]], e = eval(v)
resolveOne(v, w, e) ==
    IF Get(e.d.semi, e.u, 0) = Get(e.d.semi, v, 0)
    THEN [e.d EXCEPT !.idom = Put(@, v, VertexAt(e.d, Get(e.d.parent, w, 0)))]
    ELSE [e.d EXCEPT !.samedom = Put(@, v, e.u)]

RECURSIVE ResolveBucket(_, _, _, _)
ResolveBucket(vs, k, w, d) ==
    IF k > Len(vs) THEN d
    ELSE ResolveBucket(vs, k + 1, w, resolveOne(vs[k], w, eval(vs[k], d)))

\* One iteration of "for i := dfsNum - 1; i > 0; i--", statement by
\* statement: the edges into w, the bucket of semi[w], link, the bucket of
\* parent[w], and its reset.
clearBucket(w, d) == [d EXCEPT !.bucket = Put(@, Get(d.parent, w, 0), <<>>)]

resolveParentBucket(w, d) ==
    clearBucket(w, ResolveBucket(Get(d.bucket, Get(d.parent, w, 0), <<>>), 1, w, d))

linkToParent(w, d) ==
    resolveParentBucket(w, IF Get(d.parent, w, 0) # -1
                           THEN link(w, Get(d.parent, w, 0), d)
                           ELSE d)

addToBucket(w, d) ==
    linkToParent(w, [d EXCEPT !.bucket =
        Put(@, Get(d.semi, w, 0), Append(Get(d.bucket, Get(d.semi, w, 0), <<>>), w))])

ProcessVertex(g, allObjects, i, d) ==
    addToBucket(VertexAt(d, i),
                ProcessEdges(PredCalls(g, allObjects, d, VertexAt(d, i)), 1,
                             VertexAt(d, i), d))

RECURSIVE ReverseLoop(_, _, _, _)
ReverseLoop(g, allObjects, i, d) ==
    IF i > 0 THEN ReverseLoop(g, allObjects, i - 1, ProcessVertex(g, allObjects, i, d))
    ELSE d

\* Step 4: "for i := 1; i < dfsNum; i++"
RECURSIVE ExplicitLoop(_, _)
ExplicitLoop(i, d) ==
    IF i < d.dfsNum
    THEN ExplicitLoop(i + 1,
            IF Get(d.samedom, VertexAt(d, i), 0) # VertexAt(d, i)
            THEN [d EXCEPT !.idom =
                    Put(@, VertexAt(d, i),
                        Get(d.idom, Get(d.samedom, VertexAt(d, i), 0), 0))]
            ELSE d)
    ELSE d

\* the two loops, d being the locals after the DFS
dominatorLoops(g, allObjects, d) ==
    ExplicitLoop(1, ReverseLoop(g, allObjects, d.dfsNum - 1, d))

Dominators(g, allObjects) ==
    Del(dominatorLoops(g, allObjects,
                       dfs(SuperRootID, -1, DomLocals(g, allObjects))).idom,
        SuperRootID)

\* DominatorTree(idom): the keys are the nodes of idom, the super-root and
\* every dominator; the children of a node are collected in map iteration
\* order, which no caller depends on, so they are kept as a set.
DominatorTree(im) ==
    [n \in (DOMAIN im) \cup {SuperRootID} \cup {im[x] : x \in DOMAIN im} |->
        {x \in DOMAIN im : im[x] = n}]

(***************************************************************************)
(* RetainedSize                                                            *)
(***************************************************************************)
\* objSizes: the object sizes, then objSizes[0] = 0
objSizes(g) == Put(g.size, SuperRootID, 0)

\* "retained[nodeID] = size", r = [memo, size] after the children
storeRetained(nodeID, r) == Put(r.memo, nodeID, r.size)

RECURSIVE computeRetained(_, _, _, _)
RECURSIVE computeChildren(_, _, _, _, _)
RECURSIVE addChild(_, _, _, _, _, _)
\* returns the memo map after computing nodeID
computeRetained(nodeID, tree, sizes, memo) ==
    IF nodeID \in DOMAIN memo THEN memo
    ELSE storeRetained(nodeID,
            computeChildren(Get(tree, nodeID, {}), tree, sizes, memo,
                            Get(sizes, nodeID, 0)))

\* "for _, child := range tree[nodeID] { size += computeRetained(child) }"
computeChildren(cs, tree, sizes, memo, size) ==
    IF cs = {} THEN [memo |-> memo, size |-> size]
    ELSE addChild(CHOOSE x \in cs : TRUE, cs, tree, sizes,
                  computeRetained(CHOOSE x \in cs : TRUE, tree, sizes, memo), size)

addChild(c, cs, tree, sizes, memo, size) ==
    computeChildren(cs \ {c}, tree, sizes, memo, size + memo[c])

\* "for nodeID := range tree { computeRetained(nodeID) }"
RECURSIVE computeAll(_, _, _, _)
computeAll(nodes, tree, sizes, memo) ==
    IF nodes = {} THEN memo
    ELSE computeAll(nodes \ {CHOOSE x \in nodes : TRUE}, tree, sizes,
                    computeRetained(CHOOSE x \in nodes : TRUE, tree, sizes, memo))

retainedOfTree(g, tree) ==
    Del(computeAll(DOMAIN tree, tree, objSizes(g), EmptyMap), SuperRootID)

RetainedSize(g, allObjects) ==
    retainedOfTree(g, DominatorTree(Dominators(g, allObjects)))

(***************************************************************************)
(* Reference notions the claims are stated in: reachability and dominance  *)
(* in the graph extended with a super-root that points to every root.      *)
(* Super is the reference super-root, different from every object id.      *)
(***************************************************************************)
Super == SuperRootID - 1

\* objects reachable from the roots by pointer lists, never entering `avoid`
RECURSIVE Closure(_, _, _)
Closure(g, seen, avoid) ==
    LET next == {w \in g.objs \ (seen \cup {avoid}) :
                    \E v \in seen : w \in Range(g.ptrs[v])}
    IN IF next = {} THEN seen ELSE Closure(g, seen \cup next, avoid)

ReachAvoiding(g, avoid) ==
    Closure(g, (Range(g.roots) \cap g.objs) \ {avoid}, avoid)

Reachable(g) == ReachAvoiding(g, Super)

\* D lies on every path from the super-root to X
OnEveryPath(g, D, X) ==
    \/ D = Super
    \/ D = X
    \/ D \in g.objs /\ X \notin ReachAvoiding(g, D)

StrictDominators(g, X) ==
    {D \in (g.objs \cup {Super}) \ {X} : OnEveryPath(g, D, X)}

IsImmediateDominator(g, D, X) ==
    /\ D \in StrictDominators(g, X)
    /\ \A E \in StrictDominators(g, X) \ {D} : OnEveryPath(g, E, D)

\* the node an entry of the idom map stands for
NodeOf(id) == IF id = SuperRootID THEN Super ELSE id

\* the objects that become unreachable when X is removed, X included
Retains(g, X) == Reachable(g) \ ReachAvoiding(g, X)

(***************************************************************************)
(* The byte codec shared by goheap.parser and goheap.StreamingParser        *)
(* (parser.go 227-263 and streaming.go 503-547 are the same functions; the  *)
(* streaming ones also count progress).  A reader state rd is               *)
(*   pos   index of the next unread byte (1-based)                          *)
(*   err   "" or the error of the first read that failed                    *)
(*   vals  the values read so far, fields the field list of the record      *)
(*   prog  what the reads added to StreamingParser.progress                 *)
(* Every read is skipped once err is set: "if err != nil { return err }".   *)
(***************************************************************************)
MaxVarintLen64 == 10
MaxStringLen == 1048576        \* 1 << 20
MaxBytesLen  == 1073741824     \* 1 << 30

\* An error value: fmt.Errorf(wrap + ": %w", cause); NoErr is nil.
NoErr == [wrap |-> "", cause |-> ""]
Err(wrap, cause) == [wrap |-> wrap, cause |-> cause]

NoResult == [returned |-> FALSE, parser |-> "none", err |-> NoErr]

\* The registry before any Register call: var registry (parsers: make([]Parser, 0)).
\* mu is the RWMutex: the thread holding the write lock (0: none) and the
\* number of read locks held.
NoRegistry == [mu |-> [writer |-> 0, readers |-> 0], parsers |-> <<>>]

\* The progress goroutine before Parse starts it.  pc is where the goroutine
\* stands, bytesRead and recordsProcessed are the counters it has loaded,
\* tick and main say whose callback is running, pending and leave hold the
\* callbacks the parsing thread has yet to call in its turn and how the turn
\* ends, ticks, buffered and closed are the time.Ticker and the done
\* channel, and reports is the history of the OnProgress calls by entry.
NoReporter ==
    [pc |-> "off", bytesRead |-> 0, recordsProcessed |-> 0, tick |-> FALSE,
     main |-> "", pending |-> <<>>, leave |-> [done |-> FALSE, err |-> NoErr],
     ticks |-> 0, buffered |-> FALSE, closed |-> FALSE, reports |-> <<>>]

NoInput == [kind |-> "none", bytes |-> <<>>, long |-> FALSE,
            objectsNull |-> FALSE, objects |-> <<>>, roots |-> <<>>]

Min(a, b) == IF a <= b THEN a ELSE b

\* encoding/binary.ReadUvarint on the bytes b from pos
RECURSIVE ReadUvarint(_, _, _, _, _)
ReadUvarint(b, pos, i, x, mult) ==
    IF i >= MaxVarintLen64 THEN [err |-> "overflow", val |-> x, pos |-> pos]
    ELSE IF pos > Len(b)
    THEN [err |-> IF i > 0 THEN "unexpected EOF" ELSE "EOF", val |-> x, pos |-> pos]
    ELSE IF b[pos] < 128
    THEN IF i = MaxVarintLen64 - 1 /\ b[pos] > 1
         THEN [err |-> "overflow", val |-> x, pos |-> pos + 1]
         ELSE [err |-> "", val |-> x + b[pos] * mult, pos |-> pos + 1]
    ELSE ReadUvarint(b, pos + 1, i + 1, x + (b[pos] % 128) * mult, mult * 128)

\* io.ReadFull(p.r, make([]byte, n))
ReadFull(b, pos, n) ==
    [err  |-> IF pos + n - 1 <= Len(b) THEN ""
              ELSE IF pos > Len(b) THEN "EOF" ELSE "unexpected EOF",
     data |-> SubSeq(b, pos, Min(pos + n - 1, Len(b))),
     pos  |-> Min(pos + n, Len(b) + 1)]

NewRd(pos) == [pos |-> pos, err |-> "", vals |-> <<>>, fields |-> <<>>, prog |-> 0]

\* readVarint, r being the result of ReadUvarint
tookVarint(rd, r) ==
    IF r.err # "" THEN [rd EXCEPT !.err = r.err, !.pos = r.pos]
    ELSE [rd EXCEPT !.pos = r.pos, !.vals = Append(@, r.val), !.prog = @ + 1]

readVarint(b, rd) ==
    IF rd.err # "" THEN rd ELSE tookVarint(rd, ReadUvarint(b, rd.pos, 0, 0, 1))

\* readString / readBytes after the length: f is the result of ReadFull
tookData(rd, f) ==
    IF f.err # ""
    THEN [rd EXCEPT !.err = f.err, !.pos = f.pos, !.prog = @ + 1 + Len(f.data)]
    ELSE [rd EXCEPT !.pos = f.pos, !.vals = Append(@, f.data),
                    !.prog = @ + 1 + Len(f.data)]

tookLength(b, rd, limit, r) ==
    IF r.err # "" THEN [rd EXCEPT !.err = r.err, !.pos = r.pos]
    ELSE IF r.val > limit
    THEN [rd EXCEPT !.err = "too long", !.pos = r.pos, !.prog = @ + 1]
    ELSE tookData(rd, ReadFull(b, r.pos, r.val))

readString(b, rd) ==
    IF rd.err # "" THEN rd
    ELSE tookLength(b, rd, MaxStringLen, ReadUvarint(b, rd.pos, 0, 0, 1))

readBytes(b, rd) ==
    IF rd.err # "" THEN rd
    ELSE tookLength(b, rd, MaxBytesLen, ReadUvarint(b, rd.pos, 0, 0, 1))

\* n times readVarint
RECURSIVE readVarints(_, _, _)
readVarints(b, rd, n) ==
    IF n = 0 THEN rd ELSE readVarints(b, readVarint(b, rd), n - 1)

\* The field list "{kind, offset}* 0": the pairs go to rd.fields.  k is the
\* reader after the kind was read, o the reader after the offset was read.
fieldKind(k) == k.vals[Len(k.vals)]

RECURSIVE readFields(_, _)
RECURSIVE readFieldOffset(_, _)
RECURSIVE tookField(_, _, _)
readFields(b, rd) ==
    IF rd.err # "" THEN rd ELSE readFieldOffset(b, readVarint(b, rd))

readFieldOffset(b, k) ==
    IF k.err # "" THEN k
    ELSE IF fieldKind(k) = 0
    THEN [k EXCEPT !.vals = SubSeq(@, 1, Len(@) - 1)]
    ELSE tookField(b, fieldKind(k),
                   readVarint(b, [k EXCEPT !.vals = SubSeq(@, 1, Len(@) - 1)]))

tookField(b, kind, o) ==
    IF o.err # "" THEN o
    ELSE readFields(b, [o EXCEPT !.vals = SubSeq(@, 1, Len(@) - 1),
                                 !.fields = Append(@, <<kind, o.vals[Len(o.vals)]>>)])

\* binary.LittleEndian / binary.BigEndian .Uint32 / .Uint64
RECURSIVE UintLE(_)
UintLE(bs) == IF bs = <<>> THEN 0 ELSE bs[1] + 256 * UintLE(Tail(bs))

RECURSIVE UintBE(_)
UintBE(bs) ==
    IF bs = <<>> THEN 0 ELSE bs[Len(bs)] + 256 * UintBE(SubSeq(bs, 1, Len(bs) - 1))

\* The pointer-size word of data at offset, 0 unless the size is 4 or 8.
WordAt(data, offset, pointerSize, bigEndian) ==
    IF pointerSize \in {4, 8}
    THEN IF bigEndian THEN UintBE(SubSeq(data, offset + 1, offset + pointerSize))
                      ELSE UintLE(SubSeq(data, offset + 1, offset + pointerSize))
    ELSE 0

\* "if kind == fieldKindPtr && int(offset+p.pointerSize) <= len(data)", and
\* the same test with the kind of the field left out of it.
isAnyField(field, data, pointerSize) == field[2] + pointerSize <= Len(data)

isPointerField(field, data, pointerSize) ==
    field[1] = 1 /\ field[2] + pointerSize <= Len(data)

\* "Parse fields to extract pointers": the non-zero words at the offsets of
\* the kind-1 fields that lie within data, in field order.
RECURSIVE ExtractPointers(_, _, _, _, _)
ExtractPointers(fields, k, data, pointerSize, bigEndian) ==
    IF k > Len(fields) THEN <<>>
    ELSE (IF /\ isPointerField(fields[k], data, pointerSize)
             /\ WordAt(data, fields[k][2], pointerSize, bigEndian) # 0
          THEN <<WordAt(data, fields[k][2], pointerSize, bigEndian)>>
          ELSE <<>>)
         \o ExtractPointers(fields, k + 1, data, pointerSize, bigEndian)

(***************************************************************************)
(* SpecGraph: the graph algorithms applied to generated graphs.            *)
(***************************************************************************)
InitGraph ==
    /\ pc = "graph"
    /\ IsGeneratedGraph(graph)
    /\ idom = EmptyMap
    /\ retained = EmptyMap
    /\ input = NoInput
    /\ gp = <<>>
    /\ sp = <<>>
    /\ calls = <<>>
    /\ result = NoResult
    /\ reporter = NoReporter
    /\ parserRegistry = NoRegistry
    /\ threads = <<>>
    /\ paths = <<>>

CallDominators ==
    /\ pc = "graph"
    /\ \E allObjects \in Perms(graph.objs) :
          idom' = Dominators(graph, allObjects)
    /\ pc' = "dominators"
    /\ UNCHANGED <<graph, retained, input, gp, sp, calls, result, reporter, paths, parserRegistry, threads>>

CallRetainedSize ==
    /\ pc = "dominators"
    /\ \E allObjects \in Perms(graph.objs) :
          retained' = RetainedSize(graph, allObjects)
    /\ pc' = "retained"
    /\ UNCHANGED <<graph, idom, input, gp, sp, calls, result, reporter, paths, parserRegistry, threads>>

NextGraph == CallDominators \/ CallRetainedSize

SpecGraph == InitGraph /\ [][NextGraph]_vars

\* C1: for every object X reachable from a root, Dominators(g)[X] is the
\* immediate dominator of X in the graph extended with the super-root: it
\* differs from X, lies on every path from the super-root to X, and every
\* other node on all of those paths lies on every path to it.
C1_IdomIsImmediateDominator ==
    pc \in {"dominators", "retained"} =>
        \A X \in Reachable(graph) :
            /\ Get(idom, X, 0) # X
            /\ IsImmediateDominator(graph, NodeOf(Get(idom, X, 0)), X)

\* The same statement on the graphs that hold no object with the id of the
\* super-root.
DominatorsRightWithoutObjectZero ==
    (pc \in {"dominators", "retained"} /\ ~HasObject(graph, SuperRootID)) =>
        \A X \in Reachable(graph) :
            /\ X \in DOMAIN idom
            /\ idom[X] # X
            /\ IsImmediateDominator(graph, NodeOf(idom[X]), X)

\* C2: for every reachable object X, RetainedSize(g)[X] is the sum of the
\* sizes of X and of the objects that become unreachable when X is removed,
\* and equals size(X) plus the retained sizes of X's dominator-tree children.
C2_RetainedIsUnreachableSum ==
    pc = "retained" =>
        \A X \in Reachable(graph) :
            /\ Get(retained, X, 0) = SumOver(Retains(graph, X), graph.size)
            /\ Get(retained, X, 0) =
                  graph.size[X]
                  + SumOver({c \in DOMAIN idom : idom[c] = X},
                            [c \in DOMAIN idom |-> Get(retained, c, 0)])

\* The same statement on the graphs that hold no object with the id of the
\* super-root.
RetainedRightWithoutObjectZero ==
    (pc = "retained" /\ ~HasObject(graph, SuperRootID)) =>
        \A X \in Reachable(graph) :
            /\ X \in DOMAIN retained
            /\ retained[X] = SumOver(Retains(graph, X), graph.size)
            /\ retained[X] =
                  graph.size[X]
                  + SumOver({c \in DOMAIN idom : idom[c] = X},
                            [c \in DOMAIN idom |-> Get(retained, c, 0)])

\* C3: an object id is a key of Dominators(g) and of RetainedSize(g) exactly
\* when the object is reachable from a root.
C3_KeysAreReachableObjects ==
    pc = "retained" =>
        \A o \in graph.objs :
            /\ o \in DOMAIN idom <=> o \in Reachable(graph)
            /\ o \in DOMAIN retained <=> o \in Reachable(graph)

\* The same statement on the graphs that hold no object with the id of the
\* super-root; the super-root itself is a key of neither map.
KeysRightWithoutObjectZero ==
    (pc = "retained" /\ ~HasObject(graph, SuperRootID)) =>
        /\ DOMAIN idom = Reachable(graph)
        /\ DOMAIN retained = Reachable(graph)


(***************************************************************************)
(* Inputs: heap dumps as byte streams and JSON test dumps.                  *)
(***************************************************************************)
MaxRecords == 3      \* records after the header of a generated dump
MaxDocObjects == 2   \* objects of a generated JSON dump
MaxDocId == 2        \* ids 0..MaxDocId appear in a generated JSON dump

HeaderLen == 16
\* "go1.7 heap dump\n"
Header == <<103, 111, 49, 46, 55, 32, 104, 101, 97, 112, 32, 100, 117, 109, 112, 10>>

tagEOF == 0
tagObject == 1
tagOtherRoot == 2
tagType == 3
tagGoroutine == 4
tagStackFrame == 5
tagParams == 6
tagFinalizer == 7
tagItab == 8
tagOSThread == 9
tagMemStats == 10
tagQueuedFinalizer == 11
tagData == 12
tagBSS == 13
tagDefer == 14
tagPanic == 15
tagMemProf == 16
tagAllocSample == 17

fieldKindEol == 0
fieldKindPtr == 1

\* Records as runtime/heapdump.go writes them (the byte layouts the tests of
\* goheap build by hand): a little-endian dump with 4-byte pointers, a type
\* at address 64, object A at address 32 holding a pointer to address 33,
\* object B at address 33 holding a pointer to address 32, a root on A.
ParamsRecord == <<tagParams, 0, 4, 0, 0, 1, 97, 0, 1>>
TypeRecord   == <<tagType, 64, 8, 1, 84, 0>>
ObjectA      == <<tagObject, 32, 8, 64, 0, 0, 0, 33, 0, 0, 0,
                  fieldKindPtr, 4, fieldKindEol>>
ObjectB      == <<tagObject, 33, 8, 64, 0, 0, 0, 32, 0, 0, 0,
                  fieldKindPtr, 4, fieldKindEol>>
RootA        == <<tagOtherRoot, 1, 114, 32>>
ItabRecord   == <<tagItab, 1, 1>>
EOFRecord    == <<tagEOF>>
\* Damaged input: a tag outside the format, and a varint cut off by the end
\* of the stream.
BadTag       == <<99>>
CutVarint    == <<128>>
\* An Object record whose data, declared 8 bytes long, stops after 2.
CutObject    == <<tagObject, 32, 8, 64, 0>>

RECURSIVE Flatten(_)
Flatten(cs) == IF cs = <<>> THEN <<>> ELSE Head(cs) \o Flatten(Tail(cs))

Dump(bytes) == [kind |-> "dump", bytes |-> bytes, long |-> FALSE,
                objectsNull |-> FALSE, objects |-> <<>>, roots |-> <<>>]

\* A JSON test dump, as encoding/json decodes it into jsonDump; long says
\* that its text is longer than the 1024 bytes JSONStub.CanParse reads.
Doc(long, objectsNull, objects, roots) ==
    [kind |-> "json", bytes |-> <<>>, long |-> long,
     objectsNull |-> objectsNull, objects |-> objects, roots |-> roots]

DocIds == 0 .. MaxDocId
DocRefs == 1 .. (MaxDocId + 1)
DocObjects ==
    {[id |-> i, size |-> SizeOfId(i), ptrs |-> p, null |-> n] :
        i \in DocIds, p \in SeqsUpTo(DocRefs, 1), n \in {FALSE}}
    \cup {[id |-> i, size |-> SizeOfId(i), ptrs |-> <<>>, null |-> TRUE] : i \in DocIds}

GoRecords == {ParamsRecord, TypeRecord, ObjectA, ObjectB, RootA, ItabRecord,
              EOFRecord, BadTag, CutVarint, CutObject}

IsDumpUpTo(in, Records, max) ==
    \/ \E n \in 0 .. max : \E cs \in [1 .. n -> Records] :
          in = Dump(Header \o Flatten(cs))
    \/ in = Dump(<<>>)
    \/ in = Dump(SubSeq(Header, 1, HeaderLen - 1))
    \/ in = Dump([Header EXCEPT ![HeaderLen] = 0] \o ObjectA)

IsGeneratedDump(in, Records) == IsDumpUpTo(in, Records, MaxRecords)

IsGeneratedDoc(in) ==
    \/ \E long \in BOOLEAN : \E objs \in SeqsUpTo(DocObjects, MaxDocObjects) :
       \E roots \in SeqsUpTo(DocRefs, 1) :
          in = Doc(long, FALSE, objs, roots)
    \/ in = Doc(FALSE, TRUE, <<>>, <<>>)

(***************************************************************************)
(* goheap.parser: the state behind GoHeapParser.Parse.  seen and rootPtrs   *)
(* are history: what parseObject and parseOtherRoot decoded, record by      *)
(* record (the locals addr, pointers, objID and ptr of the code).           *)
(***************************************************************************)
NewParser ==
    [pos |-> 1, g |-> NoGraph, types |-> EmptyMap, addrToObjID |-> EmptyMap,
     roots |-> <<>>, nextObjID |-> 0, bigEndian |-> FALSE, pointerSize |-> 0,
     err |-> "", seen |-> <<>>, rootPtrs |-> <<>>]

\* A record function ends: the reader has moved, err is what it returns.
failed(p, rd) == [p EXCEPT !.pos = rd.pos, !.err = rd.err]

\* parseParams, rd the reader after its seven reads
storeParams(p, rd) ==
    IF rd.err # "" THEN failed(p, rd)
    ELSE [p EXCEPT !.pos = rd.pos, !.bigEndian = rd.vals[1] # 0,
                   !.pointerSize = rd.vals[2]]

readParams(b, pos) ==
    readVarint(b, readString(b, readString(b, readVarints(b, NewRd(pos), 4))))

parseParams(b, p) == storeParams(p, readParams(b, p.pos))

\* parseType
storeType(p, rd) ==
    IF rd.err # "" THEN failed(p, rd)
    ELSE [p EXCEPT !.pos = rd.pos, !.types = Put(@, rd.vals[1], rd.vals[3])]

readType(b, pos) == readVarint(b, readString(b, readVarints(b, NewRd(pos), 2)))

parseType(b, p) == storeType(p, readType(b, p.pos))

\* parseObject: the pointers are extracted and then left out of the object,
\* which is created with "Ptrs: make([]graph.ObjID, 0, len(pointers))".
storeObject(p, rd) ==
    IF rd.err # "" THEN failed(p, rd)
    ELSE [p EXCEPT
            !.pos = rd.pos,
            !.nextObjID = @ + 1,
            !.addrToObjID = Put(@, rd.vals[1], p.nextObjID),
            !.g = AddObject(@, p.nextObjID, Len(rd.vals[2]), <<>>),
            !.seen = Append(@, [addr |-> rd.vals[1], id |-> p.nextObjID,
                                pointers |-> ExtractPointers(rd.fields, 1, rd.vals[2],
                                                p.pointerSize, p.bigEndian)])]

readObject(b, pos) == readFields(b, readBytes(b, readVarint(b, NewRd(pos))))

parseObject(b, p) == storeObject(p, readObject(b, p.pos))

\* parseOtherRoot: the address is looked up when the record is read.
storeRoot(p, rd) ==
    IF rd.err # "" THEN failed(p, rd)
    ELSE [p EXCEPT
            !.pos = rd.pos,
            !.roots = IF rd.vals[2] \in DOMAIN p.addrToObjID
                      THEN Append(@, p.addrToObjID[rd.vals[2]]) ELSE @,
            !.rootPtrs = Append(@, rd.vals[2])]

readRoot(b, pos) == readVarint(b, readString(b, NewRd(pos)))

parseOtherRoot(b, p) == storeRoot(p, readRoot(b, p.pos))

\* skipMemProf's stack frames: nstk times string, string, varint
RECURSIVE readFrames(_, _, _)
readFrames(b, rd, nstk) ==
    IF nstk = 0 \/ rd.err # "" THEN rd
    ELSE readFrames(b, readVarint(b, readString(b, readString(b, rd))), nstk - 1)

readMemProfFrames(b, rd) ==
    IF rd.err # "" THEN rd ELSE readFrames(b, rd, rd.vals[Len(rd.vals)])

\* The records whose content the parser reads and drops.
skipRecord(b, tag, rd) ==
    CASE tag = tagGoroutine -> readString(b, readVarints(b, rd, 12))
      [] tag = tagStackFrame ->
            readFields(b, readString(b, readVarints(b,
                readBytes(b, readVarints(b, rd, 3)), 3)))
      [] tag = tagMemStats -> readVarints(b, rd, 8)
      [] tag = tagItab -> readVarints(b, rd, 2)
      [] tag \in {tagFinalizer, tagQueuedFinalizer} -> readVarints(b, rd, 5)
      [] tag \in {tagData, tagBSS} -> readFields(b, readBytes(b, readVarint(b, rd)))
      [] tag \in {tagDefer, tagPanic} -> readVarints(b, rd, 5)
      [] tag = tagOSThread -> readVarints(b, rd, 3)
      [] tag \in {tagMemProf, tagAllocSample} ->
            readVarints(b, readMemProfFrames(b, readVarints(b, rd, 3)), 2)

moved(p, rd) == IF rd.err # "" THEN failed(p, rd) ELSE [p EXCEPT !.pos = rd.pos]

\* The switch of parse(): the record function of a tag, applied to the
\* parser standing behind the tag.
parseRecord(b, tag, p) ==
    CASE tag = tagParams -> parseParams(b, p)
      [] tag = tagType -> parseType(b, p)
      [] tag = tagObject -> parseObject(b, p)
      [] tag = tagOtherRoot -> parseOtherRoot(b, p)
      [] OTHER -> moved(p, skipRecord(b, tag, NewRd(p.pos)))

\* The text each case of the switch wraps around a failure.
wrapOf(tag) ==
    CASE tag = tagParams -> "parsing params"
      [] tag = tagType -> "parsing type"
      [] tag = tagObject -> "parsing object"
      [] tag = tagOtherRoot -> "parsing root"
      [] tag = tagGoroutine -> "parsing goroutine"
      [] tag = tagStackFrame -> "parsing stack frame"
      [] tag = tagMemStats -> "parsing memstats"
      [] tag = tagItab -> "skipping itab"
      [] tag \in {tagFinalizer, tagQueuedFinalizer} -> "skipping finalizer"
      [] tag \in {tagData, tagBSS} -> "skipping data segment"
      [] tag \in {tagDefer, tagPanic} -> "skipping defer/panic"
      [] tag = tagOSThread -> "skipping OS thread"
      [] tag \in {tagMemProf, tagAllocSample} -> "skipping mem prof"

KnownTags == tagObject .. tagAllocSample

\* The tag at the parser's position.
nextTag(b, p) == ReadUvarint(b, p.pos, 0, 0, 1)


(***************************************************************************)
(* heapdump.Open, JSONStub and GoHeapParser                                 *)
(***************************************************************************)
\* The registry after the init functions ran: package heapdump registers
\* JSONStub, then package goheap, which imports it, registers GoHeapParser.
registry == <<"JSONStub", "GoHeapParser">>

\* JSONStub.CanParse: the first 1024 bytes are a JSON value with a non-null
\* "objects" member.  A heap dump is no JSON text.
JSONCanParse(in) == in.kind = "json" /\ ~in.long /\ ~in.objectsNull

\* GoHeapParser.CanParse: the first 16 bytes are the header.
GoCanParse(in) ==
    /\ in.kind = "dump"
    /\ Len(in.bytes) >= HeaderLen
    /\ SubSeq(in.bytes, 1, HeaderLen) = Header

CanParse(name, in) == IF name = "JSONStub" THEN JSONCanParse(in) ELSE GoCanParse(in)

\* The parsers Open's loop over the registry finds willing, by position.
Willing(in) == {i \in DOMAIN registry : CanParse(registry[i], in)}

FirstWilling(in) == CHOOSE i \in Willing(in) : \A j \in Willing(in) : i <= j

Returned(parser, err) == [returned |-> TRUE, parser |-> parser, err |-> err]

\* Open up to the call of the chosen parser's Parse, or ErrNoParser.
Open ==
    /\ pc = "open"
    /\ IF Willing(input) = {}
       THEN /\ result' = Returned("none", Err("", "no parser found for dump format"))
            /\ pc' = "done"
       ELSE /\ pc' = registry[FirstWilling(input)]
            /\ UNCHANGED result
    /\ UNCHANGED <<graph, idom, retained, input, gp, sp, calls, reporter, paths, parserRegistry, threads>>

\* JSONStub.Parse: the loop that builds the graph
RECURSIVE AddDocObjects(_, _, _)
AddDocObjects(g, objects, k) ==
    IF k > Len(objects) THEN g
    ELSE AddDocObjects(AddObject(g, objects[k].id, objects[k].size, objects[k].ptrs),
                       objects, k + 1)

MissingID(objects) == \E k \in DOMAIN objects : objects[k].id = 0

JSONParse ==
    /\ pc = "JSONStub"
    /\ pc' = "done"
    /\ IF MissingID(input.objects)
       THEN /\ result' = Returned("JSONStub", Err("", "missing ID"))
            /\ UNCHANGED graph
       ELSE /\ result' = Returned("JSONStub", NoErr)
            /\ graph' = SetRoots(AddDocObjects(NoGraph, input.objects, 1), input.roots)
    /\ UNCHANGED <<idom, retained, input, gp, sp, calls, reporter, paths, parserRegistry, threads>>

\* parse() fails; Parse returns nil and the error, wrapped once more in
\* "parsing heap dump".
goFail(wrap, cause) ==
    /\ result' = Returned("GoHeapParser", Err(wrap, cause))
    /\ pc' = "done"
    /\ UNCHANGED <<graph, idom, retained, input, gp, sp, calls, reporter, paths, parserRegistry, threads>>

GoParseHeader ==
    /\ pc = "GoHeapParser"
    /\ IF ReadFull(input.bytes, 1, HeaderLen).err # ""
       THEN goFail("reading header", ReadFull(input.bytes, 1, HeaderLen).err)
       ELSE IF ReadFull(input.bytes, 1, HeaderLen).data # Header
       THEN goFail("invalid header", "invalid header")
       ELSE /\ gp' = [gp EXCEPT !.pos = HeaderLen + 1]
            /\ pc' = "records"
            /\ UNCHANGED <<graph, idom, retained, input, sp, calls, result, reporter, paths, parserRegistry, threads>>

\* finalize(), and Parse returning parser.g
goFinalize ==
    /\ graph' = SetRoots(gp.g, gp.roots)
    /\ gp' = [gp EXCEPT !.g = SetRoots(@, gp.roots)]
    /\ result' = Returned("GoHeapParser", NoErr)
    /\ pc' = "done"
    /\ UNCHANGED <<idom, retained, input, sp, calls, reporter, paths, parserRegistry, threads>>

\* One turn of the loop of parse(): the stream ends where a tag is due.
GoEndOfStream ==
    /\ pc = "records"
    /\ nextTag(input.bytes, gp).err = "EOF"
    /\ goFinalize

\* The tag cannot be read.
GoReadTagFails ==
    /\ pc = "records"
    /\ nextTag(input.bytes, gp).err \notin {"", "EOF"}
    /\ goFail("reading tag", nextTag(input.bytes, gp).err)

\* case tagEOF
GoEOFRecord ==
    /\ pc = "records"
    /\ nextTag(input.bytes, gp).err = ""
    /\ nextTag(input.bytes, gp).val = tagEOF
    /\ goFinalize

\* The cases that decode or skip a record: p is the parser after the record
\* function returned.
goAfterRecord(tag, p) ==
    IF p.err # "" THEN goFail(wrapOf(tag), p.err)
    ELSE /\ gp' = p
         /\ UNCHANGED <<pc, graph, idom, retained, input, sp, calls, result, reporter, paths, parserRegistry, threads>>

goRecordAt(tag, p) == goAfterRecord(tag, parseRecord(input.bytes, tag, p))

GoRecord ==
    /\ pc = "records"
    /\ nextTag(input.bytes, gp).err = ""
    /\ nextTag(input.bytes, gp).val \in KnownTags
    /\ goRecordAt(nextTag(input.bytes, gp).val,
                  [gp EXCEPT !.pos = nextTag(input.bytes, gp).pos])

\* default: unknown tag
GoUnknownTag ==
    /\ pc = "records"
    /\ nextTag(input.bytes, gp).err = ""
    /\ nextTag(input.bytes, gp).val \notin KnownTags \cup {tagEOF}
    /\ goFail("unknown tag", "unknown tag")

InitOpen ==
    /\ pc = "open"
    /\ \/ IsGeneratedDump(input, GoRecords)
       \/ IsGeneratedDoc(input)
    /\ graph = NoGraph
    /\ idom = EmptyMap
    /\ retained = EmptyMap
    /\ gp = NewParser
    /\ sp = <<>>
    /\ calls = <<>>
    /\ result = NoResult
    /\ reporter = NoReporter
    /\ parserRegistry = NoRegistry
    /\ threads = <<>>
    /\ paths = <<>>

NextOpen ==
    \/ Open
    \/ JSONParse
    \/ GoParseHeader
    \/ GoEndOfStream
    \/ GoReadTagFails
    \/ GoEOFRecord
    \/ GoRecord
    \/ GoUnknownTag

SpecOpen == InitOpen /\ [][NextOpen]_vars

\* Open returned a graph, built by the named adapter.
OpenReturnedGraph(parser) ==
    pc = "done" /\ result.returned /\ result.err = NoErr /\ result.parser = parser

\* C4: no object of a graph returned by the Go heap-dump parser or the JSON
\* adapter has the id Dominators and RetainedSize reserve for the super-root.
C4_NoObjectHasSuperRootId ==
    (OpenReturnedGraph("GoHeapParser") \/ OpenReturnedGraph("JSONStub")) =>
        ~HasObject(graph, SuperRootID)

\* The JSON adapter alone keeps the super-root id free: it rejects id 0.
JSONGraphHasNoSuperRootId ==
    OpenReturnedGraph("JSONStub") => ~HasObject(graph, SuperRootID)

\* The objects of the dump whose address is the stored value v.
SeenAt(v) == {k \in DOMAIN gp.seen : gp.seen[k].addr = v}

\* C5: after GoHeapParser.Parse succeeded, for every Object record o and
\* every non-zero pointer value of o that is the address of an Object record
\* of the dump, before or after o, the pointer list of o's graph object
\* holds the id assigned to a record at that address.
C5_PointersResolved ==
    OpenReturnedGraph("GoHeapParser") =>
        \A k \in DOMAIN gp.seen :
            \A v \in Range(gp.seen[k].pointers) :
                SeenAt(v) # {} =>
                    \E t \in SeenAt(v) :
                        gp.seen[t].id \in Range(Get(graph.ptrs, gp.seen[k].id, <<>>))

\* C6: after GoHeapParser.Parse succeeded, the roots hold an id for every
\* OtherRoot pointer that is the address of an object of the dump, wherever
\* the two records stand in the stream, and hold no other id.
C6_RootsAreRootedObjects ==
    OpenReturnedGraph("GoHeapParser") =>
        /\ \A i \in DOMAIN gp.rootPtrs :
              SeenAt(gp.rootPtrs[i]) # {} =>
                  \E t \in SeenAt(gp.rootPtrs[i]) : gp.seen[t].id \in Range(graph.roots)
        /\ \A r \in Range(graph.roots) :
              \E t \in DOMAIN gp.seen :
                  gp.seen[t].id = r /\ gp.seen[t].addr \in Range(gp.rootPtrs)

\* What the parser does guarantee: every root is the id of an object whose
\* address an OtherRoot record names, read after the object.
RootsNameRootedObjects ==
    OpenReturnedGraph("GoHeapParser") =>
        \A r \in Range(graph.roots) :
            \E t \in DOMAIN gp.seen :
                gp.seen[t].id = r /\ gp.seen[t].addr \in Range(gp.rootPtrs)

ValidGraph(g) ==
    /\ \A o \in g.objs : \A q \in Range(g.ptrs[o]) : HasObject(g, q)
    /\ \A r \in Range(g.roots) : HasObject(g, r)

\* C7: in every graph Open returns, from either adapter, every id of a
\* pointer list and every root id names an object stored in the graph.
C7_OpenGraphIsValid ==
    (OpenReturnedGraph("GoHeapParser") \/ OpenReturnedGraph("JSONStub")) =>
        ValidGraph(graph)

\* What the Go heap-dump adapter returns instead: objects without pointers.
GoPointerListsAreEmpty ==
    OpenReturnedGraph("GoHeapParser") => \A o \in graph.objs : graph.ptrs[o] = <<>>

\* The graphs of the Go heap-dump adapter are valid.
GoGraphIsValid == OpenReturnedGraph("GoHeapParser") => ValidGraph(graph)


(***************************************************************************)
(* goheap.StreamingParser                                                   *)
(*                                                                          *)
(* sp holds the fields of the parser: the reader's position, progress,      *)
(* recordCount, maxErrors, errorCount, skipOnError, params and callbacks.   *)
(* callbacks says how the caller's functions behave: fails names the record *)
(* callback that returns an error ("none": all return nil), OnType whether  *)
(* OnType is set, OnError whether OnError is unset ("nil"), returns nil     *)
(* ("ok") or returns an error ("fail").  calls is the history of the calls  *)
(* made: the callback, where the reader stood (for a record callback the    *)
(* tag of its record, for OnError the byte the failed read stopped at, for  *)
(* OnProgress the byte count reported), and whether it returned an error.   *)
(***************************************************************************)
MaxErrorBudget == 1    \* maxErrors is drawn from 0..MaxErrorBudget
MaxStreamRecords == 2  \* records after the header of a dump handed to StreamingParser
SeekLimit == 1000

RecordCallbacks == {"OnParams", "OnType", "OnObject", "OnRoot", "OnGoroutine"}

Callbacks(fails, onType, onError) ==
    [fails |-> fails, OnType |-> onType, OnError |-> onError]

NewStreamingParser(maxErrors, skipOnError, callbacks) ==
    [pos |-> 1, progress |-> 0, recordCount |-> 0, maxErrors |-> maxErrors,
     errorCount |-> 0, skipOnError |-> skipOnError,
     params |-> [bigEndian |-> FALSE, pointerSize |-> 0], callbacks |-> callbacks]

\* Records in the layout StreamingParser reads, next to the ones above: a
\* goroutine, and a type whose name claims 2097153 bytes.
GoroutineRecord == <<tagGoroutine, 1, 1, 1, 1, 0, 0, 0, 0, 0, 0, 0, 0>>
TypeTooLong == <<tagType, 64, 8, 129, 128, 128, 1>>
\* A Params record whose arch string claims 2097153 bytes.
ParamsTooLong == <<tagParams, 0, 4, 0, 0, 129, 128, 128, 1>>

StreamRecords == {ParamsRecord, ParamsTooLong, TypeRecord, TypeTooLong, ObjectA,
                  RootA, GoroutineRecord, ItabRecord, EOFRecord, BadTag, CutVarint,
                  CutObject}

IsSet(callbacks, cb) == cb # "OnType" \/ callbacks.OnType

Call(cb, at, erred) == [cb |-> cb, at |-> at, failed |-> erred]

\* The reads of a record function are done: the reader and the progress
\* counter have moved.
advance(p, rd) == [p EXCEPT !.pos = rd.pos, !.progress = @ + rd.prog]

\* A record function ends: with the error of a read, or with the call of its
\* callback, if set, whose error it returns.
deliver(p, rd, cb, at) ==
    IF rd.err # "" THEN [p |-> advance(p, rd), err |-> rd.err, calls |-> <<>>]
    ELSE IF ~IsSet(p.callbacks, cb)
    THEN [p |-> advance(p, rd), err |-> "", calls |-> <<>>]
    ELSE [p |-> advance(p, rd),
          err |-> IF p.callbacks.fails = cb THEN "callback" ELSE "",
          calls |-> <<Call(cb, at, p.callbacks.fails = cb)>>]

\* parseParams assigns each field of p.params as it is read: BigEndian once
\* the first varint is read, PointerSize with whatever the second read
\* returns, its error included.
withParams(b, p, rd) ==
    [p EXCEPT !.params =
        [bigEndian   |-> IF Len(rd.vals) >= 1 THEN rd.vals[1] # 0 ELSE @.bigEndian,
         pointerSize |-> IF Len(rd.vals) >= 2 THEN rd.vals[2]
                         ELSE IF Len(rd.vals) = 1
                         THEN ReadUvarint(b, ReadUvarint(b, p.pos, 0, 0, 1).pos,
                                          0, 0, 1).val
                         ELSE @.pointerSize]]

streamParseParams(b, p, at) ==
    deliver(withParams(b, p, readParams(b, p.pos)), readParams(b, p.pos), "OnParams", at)

streamParseType(b, p, at) == deliver(p, readType(b, p.pos), "OnType", at)

\* parseObject, "Extract type address from data" and the field loop: what
\* OnObject is handed, rd being the reader after the record's reads.
typeAddrOf(data, params) ==
    IF Len(data) >= params.pointerSize
    THEN WordAt(data, 0, params.pointerSize, params.bigEndian)
    ELSE 0

objectArgs(p, rd) ==
    [addr     |-> rd.vals[1],
     typeAddr |-> typeAddrOf(rd.vals[2], p.params),
     data     |-> rd.vals[2],
     pointers |-> ExtractPointers(rd.fields, 1, rd.vals[2],
                                  p.params.pointerSize, p.params.bigEndian)]

\* The OnObject call of out, if it made one, with its arguments.
withArgs(out, p, rd) ==
    [out EXCEPT !.calls = [i \in DOMAIN @ |->
        [cb |-> @[i].cb, at |-> @[i].at, failed |-> @[i].failed,
         args |-> objectArgs(p, rd)]]]

streamParseObject(b, p, at) ==
    withArgs(deliver(p, readObject(b, p.pos), "OnObject", at), p, readObject(b, p.pos))

parseRoot(b, p, at) == deliver(p, readRoot(b, p.pos), "OnRoot", at)

readGoroutine(b, pos) ==
    readVarints(b, readString(b, readVarints(b, NewRd(pos), 7)), 4)

streamParseGoroutine(b, p, at) == deliver(p, readGoroutine(b, p.pos), "OnGoroutine", at)

\* skipUnknown: five varints for a tag below 20, an error for any other.
unknownTag(p) == [p |-> p, err |-> "unknown tag", calls |-> <<>>]

skipped(p, rd) == [p |-> advance(p, rd), err |-> rd.err, calls |-> <<>>]

skipUnknown(b, tag, p) ==
    IF tag < 20 THEN skipped(p, readVarints(b, NewRd(p.pos), 5)) ELSE unknownTag(p)

\* The cases of Parse's switch that hand a failure to handleError.
streamRecord(b, tag, p, at) ==
    CASE tag = tagObject -> streamParseObject(b, p, at)
      [] tag = tagOtherRoot -> parseRoot(b, p, at)
      [] tag = tagGoroutine -> streamParseGoroutine(b, p, at)
      [] OTHER -> skipUnknown(b, tag, p)

\* bufio.Reader as seekToNextRecord uses it: ReadByte remembers the byte it
\* returned, Peek forgets it, and UnreadByte steps back only over a
\* remembered byte (it returns ErrInvalidUnreadByte otherwise, which
\* seekToNextRecord does not look at).
bufReadByte(b, r) ==
    IF r.pos > Len(b) THEN [r EXCEPT !.lastByte = -1, !.err = "EOF"]
    ELSE [pos |-> r.pos + 1, lastByte |-> b[r.pos], err |-> "", peeked |-> 0]

bufPeek(b, r, n) ==
    [r EXCEPT !.lastByte = -1, !.peeked = Min(n, Len(b) + 1 - r.pos)]

bufUnreadByte(r) == IF r.lastByte < 0 THEN r ELSE [r EXCEPT !.pos = @ - 1, !.lastByte = -1]

NewBuf(pos) == [pos |-> pos, lastByte |-> -1, err |-> "", peeked |-> 0]

\* seekToNextRecord: r is the reader after the ReadByte of turn i.
RECURSIVE seekFrom(_, _, _)
RECURSIVE seekLook(_, _, _)
RECURSIVE seekPeeked(_, _, _)
seekFrom(b, r, i) ==
    IF i >= SeekLimit THEN r.pos ELSE seekLook(b, bufReadByte(b, r), i)

seekLook(b, r, i) ==
    IF r.err # "" THEN r.pos
    ELSE IF r.lastByte <= tagAllocSample THEN seekPeeked(b, bufPeek(b, r, 10), i)
    ELSE seekFrom(b, r, i + 1)

seekPeeked(b, r, i) ==
    IF r.peeked > 0 THEN bufUnreadByte(r).pos ELSE seekFrom(b, r, i + 1)

seekToNextRecord(b, pos) == seekFrom(b, NewBuf(pos), 0)

\* Parse returns err / Parse goes on with the next turn of its loop.
streamReturn(err, p, cs) ==
    /\ result' = Returned("StreamingParser", err)
    /\ pc' = "done"
    /\ sp' = p
    /\ calls' = cs
    /\ UNCHANGED <<graph, idom, retained, input, gp, reporter, paths, parserRegistry, threads>>

streamContinue(p, cs) ==
    /\ sp' = p
    /\ calls' = cs
    /\ UNCHANGED <<pc, graph, idom, retained, input, gp, result, reporter, paths, parserRegistry, threads>>

\* handleError, p being the parser where the failing record function left
\* it: count, notify OnError, give up on its error or on a spent budget,
\* else seek.
notified(p, cs) ==
    IF p.callbacks.OnError = "nil" THEN cs
    ELSE Append(cs, Call("OnError", p.pos, p.callbacks.OnError = "fail"))

canRecover(p) ==
    /\ p.callbacks.OnError # "fail"
    /\ p.errorCount + 1 <= p.maxErrors
    /\ p.skipOnError

\* ifNot is what Parse returns when handleError says no.
handleError(ifNot, p, cs) ==
    IF canRecover(p)
    THEN streamContinue([p EXCEPT !.errorCount = @ + 1,
                                  !.pos = seekToNextRecord(input.bytes, p.pos)],
                        notified(p, cs))
    ELSE streamReturn(ifNot, [p EXCEPT !.errorCount = @ + 1], notified(p, cs))

Progress(p) == Call("OnProgress", p.progress, FALSE)

\* Parse: the header and the first progress report
headerRead(p) == [p EXCEPT !.pos = HeaderLen + 1, !.progress = @ + HeaderLen]

StreamParseHeader ==
    /\ pc = "StreamingParser"
    /\ IF ReadFull(input.bytes, 1, HeaderLen).err # ""
       THEN streamReturn(Err("reading header", ReadFull(input.bytes, 1, HeaderLen).err),
                         sp, calls)
       ELSE IF ReadFull(input.bytes, 1, HeaderLen).data # Header
       THEN streamReturn(Err("invalid header", "invalid header"), sp, calls)
       ELSE /\ sp' = headerRead(sp)
            /\ calls' = Append(calls, Progress(headerRead(sp)))
            /\ pc' = "stream"
            /\ UNCHANGED <<graph, idom, retained, input, gp, result, reporter, paths, parserRegistry, threads>>

\* The parser behind a tag it has read.
afterTag(p, r) ==
    [p EXCEPT !.pos = r.pos, !.progress = @ + 1, !.recordCount = @ + 1]

\* One turn of Parse's loop: the stream ends where a tag is due; the loop is
\* left, the last progress report made.
StreamEndOfStream ==
    /\ pc = "stream"
    /\ nextTag(input.bytes, sp).err = "EOF"
    /\ streamReturn(NoErr, sp, Append(calls, Progress(sp)))

\* The tag cannot be read.
StreamReadTagFails ==
    /\ pc = "stream"
    /\ nextTag(input.bytes, sp).err \notin {"", "EOF"}
    /\ handleError(Err("", nextTag(input.bytes, sp).err),
                   [sp EXCEPT !.pos = nextTag(input.bytes, sp).pos], calls)

\* case tagEOF
StreamEOFRecord ==
    /\ pc = "stream"
    /\ nextTag(input.bytes, sp).err = ""
    /\ nextTag(input.bytes, sp).val = tagEOF
    /\ streamReturn(NoErr, afterTag(sp, nextTag(input.bytes, sp)), calls)

\* case tagParams, were its failures handed to handleError like those of
\* the other records.
afterParamsHandled(out) ==
    IF out.err = "" THEN streamContinue(out.p, calls \o out.calls)
    ELSE handleError(Err("parsing params", out.err), out.p, calls \o out.calls)

\* case tagParams: any failure ends the parse.
afterParams(out) ==
    IF out.err # ""
    THEN streamReturn(Err("parsing params", out.err), out.p, calls \o out.calls)
    ELSE streamContinue(out.p, calls \o out.calls)

StreamParams ==
    /\ pc = "stream"
    /\ nextTag(input.bytes, sp).err = ""
    /\ nextTag(input.bytes, sp).val = tagParams
    /\ afterParams(streamParseParams(input.bytes,
                       afterTag(sp, nextTag(input.bytes, sp)), sp.pos))

\* case tagType: with OnType set any failure ends the parse, a failed read
\* as well as the callback's error.
afterType(out) ==
    IF out.err = "" THEN streamContinue(out.p, calls \o out.calls)
    ELSE IF out.p.callbacks.OnType
    THEN streamReturn(Err("parsing type", out.err), out.p, calls \o out.calls)
    ELSE handleError(Err("parsing type", out.err), out.p, calls \o out.calls)

StreamType ==
    /\ pc = "stream"
    /\ nextTag(input.bytes, sp).err = ""
    /\ nextTag(input.bytes, sp).val = tagType
    /\ afterType(streamParseType(input.bytes,
                     afterTag(sp, nextTag(input.bytes, sp)), sp.pos))

\* case tagObject, tagOtherRoot, tagGoroutine and default: any failure, the
\* callback's error included, goes to handleError.
afterRecord(out) ==
    IF out.err = "" THEN streamContinue(out.p, calls \o out.calls)
    ELSE handleError(Err("", out.err), out.p, calls \o out.calls)

StreamRecord ==
    /\ pc = "stream"
    /\ nextTag(input.bytes, sp).err = ""
    /\ nextTag(input.bytes, sp).val \notin {tagEOF, tagParams, tagType}
    /\ afterRecord(streamRecord(input.bytes, nextTag(input.bytes, sp).val,
                       afterTag(sp, nextTag(input.bytes, sp)), sp.pos))

InitStream ==
    /\ pc = "StreamingParser"
    /\ IsDumpUpTo(input, StreamRecords, MaxStreamRecords)
    /\ \E maxErrors \in 0 .. MaxErrorBudget : \E skipOnError \in BOOLEAN :
       \E fails \in RecordCallbacks \cup {"none"} : \E onType \in BOOLEAN :
       \E onError \in {"nil", "ok", "fail"} :
          /\ fails = "OnType" => onType
          /\ sp = NewStreamingParser(maxErrors, skipOnError,
                                     Callbacks(fails, onType, onError))
    /\ graph = NoGraph
    /\ idom = EmptyMap
    /\ retained = EmptyMap
    /\ gp = <<>>
    /\ calls = <<>>
    /\ result = NoResult
    /\ reporter = NoReporter
    /\ parserRegistry = NoRegistry
    /\ threads = <<>>
    /\ paths = <<>>

NextStream ==
    \/ StreamParseHeader
    \/ StreamEndOfStream
    \/ StreamReadTagFails
    \/ StreamEOFRecord
    \/ StreamParams
    \/ StreamType
    \/ StreamRecord

SpecStream == InitStream /\ [][NextStream]_vars


\* A record callback has returned an error at call i.
CallbackFailedAt(i) == calls[i].cb \in RecordCallbacks /\ calls[i].failed

\* C8: when a record callback returns an error, Parse stops at that record:
\* it returns an error that carries the callback's, and it calls no further
\* record callback, whatever maxErrors and skipOnError are.
C8_CallbackErrorStopsParse ==
    \A i \in DOMAIN calls :
        CallbackFailedAt(i) =>
            /\ result.returned
            /\ result.err.cause = "callback"
            /\ \A j \in DOMAIN calls : j > i => calls[j].cb \notin RecordCallbacks

\* The same for OnParams and OnType alone, whose cases return at once.
ParamsAndTypeCallbackErrorsStopParse ==
    \A i \in DOMAIN calls :
        (CallbackFailedAt(i) /\ calls[i].cb \in {"OnParams", "OnType"}) =>
            /\ result.returned
            /\ result.err.cause = "callback"
            /\ i = Len(calls)

\* The record at the reader's position, when it is no Params record: the
\* error its decoding ends with ("" when it decodes, or when the stream
\* ends).
tagError(r) == IF r.err = "EOF" THEN "" ELSE r.err

recordError(b, p, r) ==
    IF r.err # "" THEN tagError(r)
    ELSE IF r.val \in {tagEOF, tagParams} THEN ""
    ELSE IF r.val = tagType THEN readType(b, r.pos).err
    ELSE streamRecord(b, r.val, [p EXCEPT !.pos = r.pos], p.pos).err

DecodeError == recordError(input.bytes, sp, nextTag(input.bytes, sp))

NewCalls == SubSeq(calls', Len(calls) + 1, Len(calls'))

\* C9: with skipOnError set, OnError returning nil and callbacks that
\* return nil, Parse goes on after each of the first maxErrors failed
\* records, and on the failure that takes the error count above maxErrors it
\* returns that failure's error and calls no record callback; the error
\* count never goes down.
C9_ErrorBudget ==
    [][(pc = "stream" /\ sp.skipOnError /\ sp.callbacks.OnError = "ok"
            /\ sp.callbacks.fails = "none")
        => /\ sp'.errorCount >= sp.errorCount
           /\ (DecodeError # "" /\ sp.errorCount + 1 <= sp.maxErrors)
                 => pc' = "stream"
           /\ (DecodeError # "" /\ sp.errorCount + 1 > sp.maxErrors)
                 => /\ result'.returned
                    /\ result'.err.cause = DecodeError
                    /\ \A k \in DOMAIN NewCalls : NewCalls[k].cb \notin RecordCallbacks]_vars

\* The same budget for the failures that reach handleError: a tag that
\* cannot be read, a Type record without OnType, and every other record but
\* Params.
ReachesHandleError ==
    \/ nextTag(input.bytes, sp).err # ""
    \/ nextTag(input.bytes, sp).val # tagType
    \/ ~sp.callbacks.OnType

BudgetOfHandledErrors ==
    [][(pc = "stream" /\ sp.skipOnError /\ sp.callbacks.OnError = "ok"
            /\ sp.callbacks.fails = "none" /\ ReachesHandleError)
        => /\ sp'.errorCount >= sp.errorCount
           /\ (DecodeError # "" /\ sp.errorCount + 1 <= sp.maxErrors)
                 => pc' = "stream"
           /\ (DecodeError # "" /\ sp.errorCount + 1 > sp.maxErrors)
                 => /\ result'.returned
                    /\ result'.err.cause = DecodeError]_vars

\* The first byte at or after from whose value is a tag (at most 17), or the
\* end of the stream.
RECURSIVE NextTagByte(_, _)
NextTagByte(b, from) ==
    IF from > Len(b) \/ b[from] <= tagAllocSample THEN from
    ELSE NextTagByte(b, from + 1)

\* A turn of the loop in which a record failed to decode, OnError was told
\* and Parse went on.
Recovered ==
    /\ pc = "stream" /\ pc' = "stream"
    /\ DecodeError # ""
    /\ Len(calls') = Len(calls) + 1
    /\ calls'[Len(calls')].cb = "OnError"

\* C10: after a record failed to decode, with skipOnError set and budget
\* left, OnError is told and decoding resumes at the first following byte of
\* value at most 17, which is read as the tag of the next record.
C10_ResumesAtNextTagByte ==
    [][Recovered =>
          sp'.pos = NextTagByte(input.bytes, calls'[Len(calls')].at)]_vars

\* Where decoding does resume: behind that byte, which is lost.
ResumesBehindNextTagByte ==
    [][Recovered =>
          sp'.pos = Min(NextTagByte(input.bytes, calls'[Len(calls')].at) + 1,
                        Len(input.bytes) + 1)]_vars


\* The record at the reader's position is a Params record that fails to
\* decode.
ParamsFails ==
    /\ pc = "stream"
    /\ nextTag(input.bytes, sp).err = ""
    /\ nextTag(input.bytes, sp).val = tagParams
    /\ readParams(input.bytes, nextTag(input.bytes, sp).pos).err # ""

\* C11: a Params record that fails to decode makes Parse return an error at
\* once, whatever maxErrors and skipOnError are: OnError is not called and no
\* later record is delivered.
C11_ParamsFailureIsFatal ==
    [][ParamsFails =>
          /\ pc' = "done"
          /\ result'.returned
          /\ result'.err = Err("parsing params",
                 readParams(input.bytes, nextTag(input.bytes, sp).pos).err)
          /\ calls' = calls
          /\ sp'.errorCount = sp.errorCount]_vars

\* Parse has returned on a Params record with too long a string, although
\* recovery was on, budget left and more input behind the record.
C11_Witness ==
    /\ pc = "done"
    /\ result.err = Err("parsing params", "too long")
    /\ sp.skipOnError /\ sp.maxErrors > sp.errorCount
    /\ sp.callbacks.OnError = "ok"
    /\ sp.pos <= Len(input.bytes)


\* The input ends inside the record at position pos: its tag is read, and a
\* read of its payload meets the end of the stream.
Truncated(cause) == cause \in {"EOF", "unexpected EOF"}

StreamRecordTruncated ==
    /\ pc = "stream"
    /\ nextTag(input.bytes, sp).err = ""
    /\ nextTag(input.bytes, sp).val \notin {tagEOF, tagParams}
    /\ Truncated(DecodeError)

GoRecordTruncated ==
    /\ pc = "records"
    /\ nextTag(input.bytes, gp).err = ""
    /\ nextTag(input.bytes, gp).val \in KnownTags
    /\ Truncated(parseRecord(input.bytes, nextTag(input.bytes, gp).val,
                     [gp EXCEPT !.pos = nextTag(input.bytes, gp).pos]).err)

\* C12: when the input ends inside a record, after its tag, Parse returns an
\* error, whatever the recovery settings are (StreamingParser).
C12_TruncatedRecordFails ==
    [][(StreamRecordTruncated \/ (ParamsFails /\ Truncated(
            readParams(input.bytes, nextTag(input.bytes, sp).pos).err)))
        => (result'.returned /\ result'.err # NoErr)]_vars

\* The same for GoHeapParser.Parse, which does return the error.
GoTruncatedRecordFails ==
    [][GoRecordTruncated => (result'.returned /\ result'.err # NoErr)]_vars

\* The instance of C12 on the dump that ends inside an Object record;
\* StreamingParser with recovery on reports a whole parse of it.
CutObjectDumpFails ==
    (pc = "done" /\ input.bytes = Header \o CutObject) => result.err # NoErr


CallsOf(cb) == {i \in DOMAIN calls : calls[i].cb = cb}

\* C13: in a run in which OnObject is called, OnParams has been called
\* exactly once before the first OnObject call, and is never called a second
\* time.
C13_ParamsOnceBeforeObjects ==
    CallsOf("OnObject") # {} =>
        /\ Cardinality(CallsOf("OnParams")) = 1
        /\ \A i \in CallsOf("OnObject") : \E j \in CallsOf("OnParams") : j < i

\* The order of the calls is the order of the records: on the dump that
\* holds one Params record and then an object the claim's order is kept.
ParamsThenObjectInOrder ==
    (input.bytes = Header \o ParamsRecord \o ObjectA /\ CallsOf("OnObject") # {}) =>
        /\ Cardinality(CallsOf("OnParams")) = 1
        /\ \A i \in CallsOf("OnObject") : \E j \in CallsOf("OnParams") : j < i


(***************************************************************************)
(* One turn of Parse's loop as a function of the parser: the parser after   *)
(* the turn, the callbacks the turn calls, in order, whether Parse returns  *)
(* in it and with which error.  TurnAgrees states that this is what the     *)
(* actions of SpecStream do.                                                *)
(***************************************************************************)
turnGoOn(p, cs) == [p |-> p, calls |-> cs, done |-> FALSE, err |-> NoErr]

turnReturn(err, p, cs) == [p |-> p, calls |-> cs, done |-> TRUE, err |-> err]

turnHandleError(ifNot, p, cs) ==
    IF canRecover(p)
    THEN turnGoOn([p EXCEPT !.errorCount = @ + 1,
                            !.pos = seekToNextRecord(input.bytes, p.pos)],
                  notified(p, cs))
    ELSE turnReturn(ifNot, [p EXCEPT !.errorCount = @ + 1], notified(p, cs))

turnParams(out) ==
    IF out.err # "" THEN turnReturn(Err("parsing params", out.err), out.p, out.calls)
    ELSE turnGoOn(out.p, out.calls)

turnType(out) ==
    IF out.err = "" THEN turnGoOn(out.p, out.calls)
    ELSE IF out.p.callbacks.OnType
    THEN turnReturn(Err("parsing type", out.err), out.p, out.calls)
    ELSE turnHandleError(Err("parsing type", out.err), out.p, out.calls)

turnRecord(out) ==
    IF out.err = "" THEN turnGoOn(out.p, out.calls)
    ELSE turnHandleError(Err("", out.err), out.p, out.calls)

\* r is the tag read at the parser's position.
turnAt(b, p, r) ==
    IF r.err = "EOF" THEN turnReturn(NoErr, p, <<Progress(p)>>)
    ELSE IF r.err # "" THEN turnHandleError(Err("", r.err), [p EXCEPT !.pos = r.pos], <<>>)
    ELSE IF r.val = tagEOF THEN turnReturn(NoErr, afterTag(p, r), <<>>)
    ELSE IF r.val = tagParams
    THEN turnParams(streamParseParams(b, afterTag(p, r), p.pos))
    ELSE IF r.val = tagType
    THEN turnType(streamParseType(b, afterTag(p, r), p.pos))
    ELSE turnRecord(streamRecord(b, r.val, afterTag(p, r), p.pos))

turn(b, p) == turnAt(b, p, nextTag(b, p))

TurnAgrees ==
    [][pc = "stream" =>
          /\ sp' = turn(input.bytes, sp).p
          /\ calls' = calls \o turn(input.bytes, sp).calls
          /\ result'.returned = turn(input.bytes, sp).done
          /\ result'.err = turn(input.bytes, sp).err]_vars


(***************************************************************************)
(* SpecProgress: Parse together with its progress goroutine.  The parsing   *)
(* thread takes its turns as above, and calls the callbacks of a turn one   *)
(* after the other; the goroutine waits for a tick, loads progress and      *)
(* recordCount, and calls OnProgress.                                       *)
(***************************************************************************)
MaxTicks == 2     \* ticks the time.Ticker sends during a run

Report(bytesRead, recordsProcessed, by) ==
    [bytesRead |-> bytesRead, recordsProcessed |-> recordsProcessed, by |-> by]

\* Parse up to "go func()": header, first progress report, start of the
\* goroutine.
ProgStart ==
    /\ pc = "StreamingParser"
    /\ IF ReadFull(input.bytes, 1, HeaderLen).err # ""
       THEN /\ result' = Returned("StreamingParser",
                   Err("reading header", ReadFull(input.bytes, 1, HeaderLen).err))
            /\ pc' = "done"
            /\ UNCHANGED <<sp, calls, reporter, parserRegistry, threads>>
       ELSE IF ReadFull(input.bytes, 1, HeaderLen).data # Header
       THEN /\ result' = Returned("StreamingParser", Err("invalid header", "invalid header"))
            /\ pc' = "done"
            /\ UNCHANGED <<sp, calls, reporter, parserRegistry, threads>>
       ELSE /\ sp' = headerRead(sp)
            /\ calls' = Append(calls, Progress(headerRead(sp)))
            /\ reporter' = [reporter EXCEPT
                   !.pc = "idle",
                   !.reports = Append(@, Report(headerRead(sp).progress,
                                                headerRead(sp).recordCount, "main"))]
            /\ pc' = "stream"
            /\ UNCHANGED result
    /\ UNCHANGED <<graph, idom, retained, input, gp, paths, parserRegistry, threads>>

\* A turn of the loop up to its first callback: t is what the turn does.
beginTurn(t) ==
    /\ sp' = t.p
    /\ reporter' = [reporter EXCEPT !.pending = t.calls,
                                    !.leave = [done |-> t.done, err |-> t.err]]
    /\ pc' = "turn"
    /\ UNCHANGED <<graph, idom, retained, input, gp, calls, result, paths, parserRegistry, threads>>

ProgTurn ==
    /\ pc = "stream"
    /\ beginTurn(turn(input.bytes, sp))

\* The parsing thread enters the next callback of its turn.
reported(rs, c) ==
    IF c.cb = "OnProgress" THEN Append(rs, Report(c.at, sp.recordCount, "main")) ELSE rs

MainEnter ==
    /\ pc = "turn"
    /\ reporter.main = ""
    /\ reporter.pending # <<>>
    /\ calls' = Append(calls, Head(reporter.pending))
    /\ reporter' = [reporter EXCEPT !.main = Head(reporter.pending).cb,
                                    !.pending = Tail(@),
                                    !.reports = reported(@, Head(reporter.pending))]
    /\ UNCHANGED <<pc, graph, idom, retained, input, gp, sp, result, paths, parserRegistry, threads>>

\* The callback returns.
MainExit ==
    /\ pc = "turn"
    /\ reporter.main # ""
    /\ reporter' = [reporter EXCEPT !.main = ""]
    /\ UNCHANGED <<pc, graph, idom, retained, input, gp, sp, calls, result, paths, parserRegistry, threads>>

\* The turn is over: the loop goes on, or Parse returns and its deferred
\* calls close done and stop the ticker.
ProgTurnEnds ==
    /\ pc = "turn"
    /\ reporter.main = ""
    /\ reporter.pending = <<>>
    /\ IF reporter.leave.done
       THEN /\ result' = Returned("StreamingParser", reporter.leave.err)
            /\ reporter' = [reporter EXCEPT !.closed = TRUE]
            /\ pc' = "done"
       ELSE /\ pc' = "stream"
            /\ UNCHANGED <<result, reporter, parserRegistry, threads>>
    /\ UNCHANGED <<graph, idom, retained, input, gp, sp, calls, paths, parserRegistry, threads>>

reporterStep(r) ==
    /\ reporter' = r
    /\ UNCHANGED <<pc, graph, idom, retained, input, gp, sp, calls, result, paths, parserRegistry, threads>>

\* The ticker sends a tick into its channel, which holds one.
TickArrives ==
    /\ reporter.pc # "off"
    /\ ~reporter.closed
    /\ ~reporter.buffered
    /\ reporter.ticks < MaxTicks
    /\ reporterStep([reporter EXCEPT !.buffered = TRUE, !.ticks = @ + 1])

\* select: case <-progressTicker.C
TickTaken ==
    /\ reporter.pc = "idle"
    /\ reporter.buffered
    /\ reporterStep([reporter EXCEPT !.buffered = FALSE, !.pc = "loadBytes"])

\* select: case <-done
ReporterStops ==
    /\ reporter.pc = "idle"
    /\ reporter.closed
    /\ reporterStep([reporter EXCEPT !.pc = "exited"])

\* The arguments of the call: p.progress.Load(), then p.recordCount.Load()
TickLoadBytes ==
    /\ reporter.pc = "loadBytes"
    /\ reporterStep([reporter EXCEPT !.bytesRead = sp.progress, !.pc = "loadRecords"])

TickLoadRecords ==
    /\ reporter.pc = "loadRecords"
    /\ reporterStep([reporter EXCEPT !.recordsProcessed = sp.recordCount, !.pc = "enter"])

\* The goroutine enters OnProgress / OnProgress returns to it.
TickEnter ==
    /\ reporter.pc = "enter"
    /\ calls' = Append(calls, Call("OnProgress", reporter.bytesRead, FALSE))
    /\ reporter' = [reporter EXCEPT
           !.pc = "calling", !.tick = TRUE,
           !.reports = Append(@, Report(reporter.bytesRead,
                                        reporter.recordsProcessed, "tick"))]
    /\ UNCHANGED <<pc, graph, idom, retained, input, gp, sp, result, paths, parserRegistry, threads>>

TickExit ==
    /\ reporter.pc = "calling"
    /\ reporterStep([reporter EXCEPT !.pc = "idle", !.tick = FALSE])

InitProgress ==
    /\ pc = "StreamingParser"
    /\ IsDumpUpTo(input, StreamRecords, MaxStreamRecords)
    /\ \E skipOnError \in BOOLEAN : \E onError \in {"nil", "ok"} :
          sp = NewStreamingParser(MaxErrorBudget, skipOnError,
                                  Callbacks("none", TRUE, onError))
    /\ graph = NoGraph
    /\ idom = EmptyMap
    /\ retained = EmptyMap
    /\ gp = <<>>
    /\ calls = <<>>
    /\ result = NoResult
    /\ reporter = NoReporter
    /\ parserRegistry = NoRegistry
    /\ threads = <<>>
    /\ paths = <<>>

NextProgress ==
    \/ ProgStart
    \/ ProgTurn
    \/ MainEnter
    \/ MainExit
    \/ ProgTurnEnds
    \/ TickArrives
    \/ TickTaken
    \/ ReporterStops
    \/ TickLoadBytes
    \/ TickLoadRecords
    \/ TickEnter
    \/ TickExit

SpecProgress == InitProgress /\ [][NextProgress]_vars


RunIsOver == pc = "done" /\ reporter.pc \in {"off", "exited"}

ReportsBy(by) == {k \in DOMAIN reporter.reports : reporter.reports[k].by = by}

\* C14: a run that accepts the header and returns no error has reported
\* progress once before the first record (16 bytes, no record) and once after
\* the last record with the final counters, however the stream ended.
C14_ProgressFirstAndLast ==
    (RunIsOver /\ result.err = NoErr) =>
        /\ reporter.reports # <<>>
        /\ reporter.reports[1] = Report(HeaderLen, 0, "main")
        /\ \E k \in ReportsBy("main") :
              /\ k > 1
              /\ reporter.reports[k].bytesRead = sp.progress
              /\ reporter.reports[k].recordsProcessed = sp.recordCount

\* The first report is always there, and a run that ends at the end of the
\* input reports last.
FirstReportIsMade ==
    reporter.pc # "off" => reporter.reports[1] = Report(HeaderLen, 0, "main")

EndOfInputReportsLast ==
    [][(pc = "stream" /\ pc' = "turn" /\ nextTag(input.bytes, sp).err = "EOF") =>
          /\ reporter'.pending = <<Progress(sp)>>
          /\ reporter'.leave = [done |-> TRUE, err |-> NoErr]]_vars

\* A run that ends at an EOF record returns without a last report.
EOFRecordReportsNothing ==
    [][(pc = "stream" /\ pc' = "turn" /\ nextTag(input.bytes, sp).err = ""
                      /\ nextTag(input.bytes, sp).val = tagEOF) =>
          /\ reporter'.pending = <<>>
          /\ reporter'.leave = [done |-> TRUE, err |-> NoErr]]_vars

\* C15: in the order in which the OnProgress calls are entered, neither
\* bytesRead nor recordsProcessed ever decreases.
C15_ProgressNeverDecreases ==
    \A i, j \in DOMAIN reporter.reports :
       i < j => /\ reporter.reports[i].bytesRead <= reporter.reports[j].bytesRead
                /\ reporter.reports[i].recordsProcessed
                      <= reporter.reports[j].recordsProcessed

\* The reports of one thread alone never decrease.
ReportsOfOneThreadNeverDecrease ==
    \A by \in {"main", "tick"} : \A i, j \in ReportsBy(by) :
       i < j => /\ reporter.reports[i].bytesRead <= reporter.reports[j].bytesRead
                /\ reporter.reports[i].recordsProcessed
                      <= reporter.reports[j].recordsProcessed

\* C16: no two callbacks run at the same time: while the goroutine is in
\* OnProgress the parsing thread is in no callback.
C16_CallbacksNeverOverlap == ~(reporter.tick /\ reporter.main # "")

\* The same for two OnProgress calls alone.
ProgressNeverOverlapsProgress == ~(reporter.tick /\ reporter.main = "OnProgress")


(***************************************************************************)
(* graph.PathsToRoots: breadth-first search over the reverse edges.        *)
(* allObjects is the order in which ForEachObject delivered the objects    *)
(* (Go map iteration order).  A path is the sequence Path.IDs.             *)
(***************************************************************************)
MaxPaths == 2          \* largest maxPaths asked for

\* BuildReverseEdges, for one object: the object's id is appended to the
\* referrers of each of its pointers, once per occurrence.
RECURSIVE reverseOfObject(_, _, _, _)
reverseOfObject(reverse, id, ptrs, j) ==
    IF j > Len(ptrs) THEN reverse
    ELSE reverseOfObject(
             Put(reverse, ptrs[j], Append(Get(reverse, ptrs[j], <<>>), id)),
             id, ptrs, j + 1)

RECURSIVE reverseFrom(_, _, _, _)
reverseFrom(g, allObjects, k, reverse) ==
    IF k > Len(allObjects) THEN reverse
    ELSE reverseFrom(g, allObjects, k + 1,
             reverseOfObject(reverse, allObjects[k], g.ptrs[allObjects[k]], 1))

BuildReverseEdges(g, allObjects) == reverseFrom(g, allObjects, 1, EmptyMap)

\* rootSet[id]
rootSet(g) == Range(g.roots)

searchNode(id, path) == [id |-> id, path |-> path]

\* The search's locals: queue and result.
NewSearch(from) == [queue |-> <<searchNode(from, <<from>>)>>, result |-> <<>>]


\* A check that overlooks the first element of the path.
inPathAfterFirst(path, id) == id \in Range(Tail(path))

\* No check at all.
inPathNever(path, id) == FALSE

\* "Avoid cycles": the referrer is already on the node's path.
inPath(path, id) == id \in Range(path)

\* A result that grows at its front.
emitFirst(found, path) == <<path>> \o found

\* result = append(result, Path{IDs: newPath})
emit(found, path) == Append(found, path)

\* A search that never continues behind a referrer.
enqueueNever(queue, node) == queue

\* queue = append(queue, searchNode{...})
enqueue(queue, node) == Append(queue, node)

\* A search that stops at its first path.
fullAtOne(found, maxPaths) == Len(found) >= 1

\* len(result) >= maxPaths
full(found, maxPaths) == Len(found) >= maxPaths

\* The loop over the referrers of node, from the j-th on.
RECURSIVE visit(_, _, _, _, _, _)
visit(s, node, referrers, j, g, maxPaths) ==
    IF j > Len(referrers) THEN s
    ELSE IF inPath(node.path, referrers[j])
    THEN visit(s, node, referrers, j + 1, g, maxPaths)
    ELSE IF referrers[j] \in rootSet(g)
    THEN IF full(emit(s.result, Append(node.path, referrers[j])), maxPaths)
         THEN [s EXCEPT !.result = emit(@, Append(node.path, referrers[j]))]
         ELSE visit([s EXCEPT !.result = emit(@, Append(node.path, referrers[j]))],
                    node, referrers, j + 1, g, maxPaths)
    ELSE visit([s EXCEPT !.queue = enqueue(@, searchNode(referrers[j],
                                               Append(node.path, referrers[j])))],
               node, referrers, j + 1, g, maxPaths)

\* for len(queue) > 0 && len(result) < maxPaths
RECURSIVE search(_, _, _, _)
search(s, reverse, g, maxPaths) ==
    IF s.queue = <<>> \/ full(s.result, maxPaths) THEN s.result
    ELSE search(visit([s EXCEPT !.queue = Tail(@)], Head(s.queue),
                      Get(reverse, Head(s.queue).id, <<>>), 1, g, maxPaths),
                reverse, g, maxPaths)

PathsToRoots(g, allObjects, from, maxPaths) ==
    IF maxPaths <= 0 THEN <<>>
    ELSE IF from \in rootSet(g) THEN << <<from>> >>
    ELSE search(NewSearch(from), BuildReverseEdges(g, allObjects), g, maxPaths)

(***************************************************************************)
(* SpecPaths: PathsToRoots called once on a generated graph.               *)
(***************************************************************************)
NoPaths(from, maxPaths) ==
    [from |-> from, maxPaths |-> maxPaths, returned |-> FALSE, result |-> <<>>]

CallPathsToRoots ==
    /\ pc = "paths"
    /\ \E allObjects \in Perms(graph.objs) :
          paths' = [paths EXCEPT
                       !.returned = TRUE,
                       !.result = PathsToRoots(graph, allObjects, paths.from,
                                               paths.maxPaths)]
    /\ pc' = "done"
    /\ UNCHANGED <<graph, idom, retained, input, gp, sp, calls, result, reporter, parserRegistry, threads>>

\* The id of no object of the generated graphs: a pointer to it dangles.
NoObjectID == SuperRootID

IsIncreasing(ids) == \A i, j \in DOMAIN ids : i < j => ids[i] < ids[j]

\* g is a graph with the objects 1..n whose pointer lists name objects or
\* NoObjectID.  The roots are listed in increasing order: PathsToRoots reads
\* the list only to fill rootSet.
IsPathsGraph(g, n) ==
    \E p \in [1..n -> SeqsUpTo({NoObjectID} \cup (1..n), MaxPtrs)] :
    \E r \in SeqsUpTo(1..n, MaxRoots) :
        /\ SumOver(1..n, [o \in 1..n |-> Len(p[o])]) <= MaxEdges
        /\ IsIncreasing(r)
        /\ g = [objs |-> 1..n, ptrs |-> p, nilPtrs |-> {},
                size |-> [o \in 1..n |-> SizeOfId(o)], roots |-> r]

InitPaths ==
    /\ pc = "paths"
    /\ \E n \in 0..MaxObjects : IsPathsGraph(graph, n)
    /\ \E from \in {NoObjectID} \cup (1..MaxObjects) : \E maxPaths \in 0..MaxPaths :
          paths = NoPaths(from, maxPaths)
    /\ idom = EmptyMap
    /\ retained = EmptyMap
    /\ input = NoInput
    /\ gp = <<>>
    /\ sp = <<>>
    /\ calls = <<>>
    /\ result = NoResult
    /\ reporter = NoReporter
    /\ parserRegistry = NoRegistry
    /\ threads = <<>>

NextPaths == CallPathsToRoots

SpecPaths == InitPaths /\ [][NextPaths]_vars


PtrsOf(g, id) == IF id \in g.objs THEN Range(g.ptrs[id]) ELSE {}

NoRepeat(path) == \A i, j \in DOMAIN path : i # j => path[i] # path[j]

\* path is a pointer chain read backwards: each element is referred to by
\* the next one.
IsChain(g, path) ==
    \A i \in 1..(Len(path) - 1) : path[i] \in PtrsOf(g, path[i + 1])

\* A valid path from from: repetition-free chain from from to a root.
IsValidPath(g, from, path) ==
    /\ path # <<>>
    /\ path[1] = from
    /\ IsChain(g, path)
    /\ path[Len(path)] \in rootSet(g)
    /\ NoRepeat(path)

PathsReturned == pc = "done" /\ paths.returned

\* C17: every returned path starts at from, each of its elements is among
\* the pointers of the next, its last element is a root, and no id occurs
\* in it twice.
C17_PathsAreValid ==
    PathsReturned =>
        \A k \in DOMAIN paths.result :
            IsValidPath(graph, paths.from, paths.result[k])

\* A path of three objects is returned from a graph in which an object of
\* the path points back into the path (a cycle or a self-reference).
C17_Witness ==
    /\ PathsReturned
    /\ \E k \in DOMAIN paths.result :
          /\ Len(paths.result[k]) >= 3
          /\ \E i, j \in DOMAIN paths.result[k] :
                i <= j /\ paths.result[k][j] \in PtrsOf(graph, paths.result[k][i])


\* The repetition-free sequences of ids of the generated graphs.
CandidatePaths ==
    {q \in SeqsUpTo({NoObjectID} \cup (1..MaxObjects), MaxObjects + 1) : NoRepeat(q)}

\* The valid paths PathsToRoots left out.
Omitted ==
    {q \in CandidatePaths :
        IsValidPath(graph, paths.from, q) /\ q \notin Range(paths.result)}

\* The result holds maxPaths paths, none of them longer than q.
CrowdedOut(q) ==
    /\ Len(paths.result) = paths.maxPaths
    /\ \A k \in DOMAIN paths.result : Len(paths.result[k]) <= Len(q)

\* C18 as stated: a valid path is missing from the result only when the
\* result holds K paths none of which is longer than the missing one.
C18_KShortestOfAllPaths ==
    PathsReturned => \A q \in Omitted : CrowdedOut(q)

\* No element of q before the last one is a root.
EndsAtFirstRoot(q) == \A i \in 1..(Len(q) - 1) : q[i] \notin rootSet(graph)

\* C18: the result holds the K shortest of the valid paths that end at their
\* first root: such a path is missing from the result only when the result
\* holds K paths none of which is longer than the missing one.
C18_KShortestToFirstRoot ==
    PathsReturned =>
        \A q \in Omitted : EndsAtFirstRoot(q) => CrowdedOut(q)

\* A path ending at its first root is left out of a result of K paths.
C18_Witness ==
    /\ PathsReturned
    /\ paths.maxPaths >= 1
    /\ \E q \in Omitted : EndsAtFirstRoot(q) /\ Len(q) >= 3


\* The pointer chains from a root to from, read backwards from from.
\* A shortest chain repeats no id, so the repetition-free ones give the
\* minimum.
ChainsFromRoots == {q \in CandidatePaths : IsValidPath(graph, paths.from, q)}

\* C19: the returned paths are in non-decreasing order of length, and the
\* first is as short as the shortest pointer chain from any root to from.
C19_ShortestFirst ==
    PathsReturned =>
        /\ \A i, j \in DOMAIN paths.result :
              i < j => Len(paths.result[i]) <= Len(paths.result[j])
        /\ paths.result # <<>> =>
              \A q \in ChainsFromRoots : Len(paths.result[1]) <= Len(q)

\* Two paths of different lengths are returned, the longer one found two
\* turns of the search after the first.
C19_Witness ==
    /\ PathsReturned
    /\ Len(paths.result) = 2
    /\ Len(paths.result[1]) = 3
    /\ Len(paths.result[2]) = 4

\* from is a root or some pointer chain leads from a root to from.
ReachableFromRoots == ChainsFromRoots # {}

\* C20: for K >= 1 the result is empty exactly when from is neither a root
\* nor reachable from any root.
C20_EmptyIffUnreachable ==
    (PathsReturned /\ paths.maxPaths >= 1) =>
        (paths.result = <<>> <=> ~ReachableFromRoots)

\* from lies on a cycle and is reached from a root over two pointers: a path
\* is returned.
C20_Witness ==
    /\ PathsReturned
    /\ paths.maxPaths >= 1
    /\ paths.result # <<>>
    /\ Len(paths.result[1]) = 3
    /\ paths.from \in PtrsOf(graph, paths.result[1][2])
    /\ paths.result[1][2] \in PtrsOf(graph, paths.from)

\* from is an object no root reaches, although it has referrers: nothing
\* is returned.
UnreachableIsEmpty ==
    (PathsReturned /\ ~ReachableFromRoots) => paths.result = <<>>


\* C28: the paths returned by one call are pairwise distinct as id
\* sequences.
C28_PathsAreDistinct ==
    PathsReturned =>
        \A i, j \in DOMAIN paths.result :
            i # j => paths.result[i] # paths.result[j]

\* No object lists a target twice.
NoRepeatedPointers == \A o \in graph.objs : NoRepeat(graph.ptrs[o])

\* Without repeated targets in the pointer lists the paths are distinct.
DistinctWithoutRepeatedPointers ==
    (PathsReturned /\ NoRepeatedPointers) =>
        \A i, j \in DOMAIN paths.result :
            i # j => paths.result[i] # paths.result[j]

\* C29: the result is the same whatever order ForEachObject visits the
\* objects in: every order gives the paths this call returned.
C29_ResultIgnoresVisitOrder ==
    PathsReturned =>
        \A allObjects \in Perms(graph.objs) :
            PathsToRoots(graph, allObjects, paths.from, paths.maxPaths) = paths.result

\* The set of paths is the same in every order when maxPaths cuts nothing
\* off: the search then runs until the queue is empty.
SamePathsWhenNothingIsCutOff ==
    (PathsReturned /\ Len(paths.result) < paths.maxPaths) =>
        \A allObjects \in Perms(graph.objs) :
            Range(PathsToRoots(graph, allObjects, paths.from, paths.maxPaths))
                = Range(paths.result)


\* C30: once Parse has returned no callback is invoked any more.
C30_NoCallbackAfterReturn == [][pc = "done" => calls' = calls]_vars

\* The parsing thread itself calls nothing after its return, and the
\* goroutine ends once it reads done.
OnlyProgressAfterReturn ==
    [][(pc = "done" /\ calls' # calls) =>
          /\ reporter.pc = "enter"
          /\ calls' = Append(calls, Call("OnProgress", reporter.bytesRead, FALSE))]_vars

NoCallbackAfterReporterExit == [][reporter.pc = "exited" => calls' = calls]_vars


(***************************************************************************)
(* SpecTerminates: the graph algorithms on generated graphs, the search of *)
(* PathsToRoots taken one turn of its loop at a time.  paths holds the     *)
(* call's arguments and locals: from, maxPaths, reverse, queue, result,    *)
(* and the number of turns taken.                                          *)
(***************************************************************************)
Searching(from, maxPaths, reverse) ==
    [from |-> from, maxPaths |-> maxPaths, reverse |-> reverse, queue |-> NewSearch(from).queue, result |-> <<>>,
     turns |-> 0, returned |-> FALSE]

\* PathsToRoots up to its loop.
startSearch(from, maxPaths, allObjects) ==
    IF maxPaths <= 0 \/ from \in rootSet(graph)
    THEN /\ paths' = [Searching(from, maxPaths, EmptyMap) EXCEPT
                         !.queue = <<>>,
                         !.result = PathsToRoots(graph, allObjects, from, maxPaths),
                         !.returned = TRUE]
         /\ pc' = "done"
    ELSE /\ paths' = Searching(from, maxPaths,
                               BuildReverseEdges(graph, allObjects))
         /\ pc' = "search"

SearchStart ==
    /\ pc = "graph"
    /\ \E from \in {Super} \cup graph.objs : \E maxPaths \in {0, MaxPaths} :
       \E allObjects \in Perms(graph.objs) :
          startSearch(from, maxPaths, allObjects)
    /\ UNCHANGED <<graph, idom, retained, input, gp, sp, calls, result, reporter, parserRegistry, threads>>

\* One turn of "for len(queue) > 0 && len(result) < maxPaths", s being the
\* locals after the turn.
afterTurn(s) ==
    paths' = [paths EXCEPT !.queue = s.queue, !.result = s.result, !.turns = @ + 1]

SearchTurn ==
    /\ pc = "search"
    /\ paths.queue # <<>>
    /\ ~full(paths.result, paths.maxPaths)
    /\ afterTurn(visit([queue |-> Tail(paths.queue), result |-> paths.result],
                       Head(paths.queue),
                       Get(paths.reverse, Head(paths.queue).id, <<>>), 1,
                       graph, paths.maxPaths))
    /\ UNCHANGED <<pc, graph, idom, retained, input, gp, sp, calls, result, reporter, parserRegistry, threads>>

\* return result
SearchReturn ==
    /\ pc = "search"
    /\ paths.queue = <<>> \/ full(paths.result, paths.maxPaths)
    /\ paths' = [paths EXCEPT !.returned = TRUE]
    /\ pc' = "done"
    /\ UNCHANGED <<graph, idom, retained, input, gp, sp, calls, result, reporter, parserRegistry, threads>>

InitTerminates == InitGraph

NextTerminates ==
    \/ CallDominators
    \/ CallRetainedSize
    \/ SearchStart
    \/ SearchTurn
    \/ SearchReturn

SpecTerminates == InitTerminates /\ [][NextTerminates]_vars


\* The longest repetition-free path and the most referrers a node can have.
LongestPath == Cardinality(graph.objs) + 1

EdgeCount == SumOver(graph.objs, [o \in graph.objs |-> Len(graph.ptrs[o])])

\* The weight of a queued path: a turn replaces the path at the head of the
\* queue by at most EdgeCount paths that are longer by one, each of which
\* weighs EdgeCount + 1 times less.
Weight(path) == (EdgeCount + 1) ^ (LongestPath - Len(path))

RECURSIVE QueueWeight(_, _)
QueueWeight(queue, k) ==
    IF k > Len(queue) THEN 0 ELSE Weight(queue[k].path) + QueueWeight(queue, k + 1)

\* The turns taken and the weight of the work left never exceed the weight
\* of the first queue.
SearchIsBounded ==
    /\ \A k \in DOMAIN paths.queue :
          /\ NoRepeat(paths.queue[k].path)
          /\ Len(paths.queue[k].path) <= LongestPath
    /\ paths.turns + QueueWeight(paths.queue, 1) <= Weight(<<paths.from>>)

\* Following idom upwards from x for up to k steps never comes back to x:
\* the recursion of computeRetained over the dominator tree ends.
RECURSIVE ComesBack(_, _, _)
ComesBack(x, y, k) ==
    /\ k > 0
    /\ y \in DOMAIN idom
    /\ \/ idom[y] = x
       \/ ComesBack(x, idom[y], k - 1)

DominatorTreeHasNoCycle ==
    \A x \in DOMAIN idom : ~ComesBack(x, x, Cardinality(DOMAIN idom))

\* Dominators and RetainedSize return a map over the objects, in whatever
\* order ForEachObject delivers them.
DominatorsReturns ==
    \A allObjects \in Perms(graph.objs) :
        DOMAIN Dominators(graph, allObjects) \subseteq graph.objs

RetainedSizeReturns ==
    \A allObjects \in Perms(graph.objs) :
        DOMAIN RetainedSize(graph, allObjects) \subseteq graph.objs

\* C21: PathsToRoots, Dominators, DominatorTree and RetainedSize terminate
\* on every graph: Dominators and RetainedSize return their maps, the
\* dominator tree that RetainedSize descends has no cycle, and the search
\* can always take its next step while its turns are bounded by a weight
\* that every turn lowers.
C21_AlgorithmsTerminate ==
    /\ pc = "graph" =>
          (DominatorsReturns /\ RetainedSizeReturns /\ ENABLED SearchStart)
    /\ pc = "dominators" => DominatorTreeHasNoCycle
    /\ pc = "search" => (SearchIsBounded /\ ENABLED (SearchTurn \/ SearchReturn))

\* The search has returned after three turns on a graph in which an object
\* points to itself and a pointer list names a target twice.
C21_Witness ==
    /\ pc = "done"
    /\ paths.returned
    /\ paths.turns >= 3
    /\ \E o \in graph.objs : o \in Range(graph.ptrs[o])
    /\ \E o \in graph.objs : ~NoRepeat(graph.ptrs[o])

\* Taken turn by turn the search returns what PathsToRoots returns.
SearchTurnsAgree ==
    (pc = "done" /\ paths # <<>>) =>
        \E allObjects \in Perms(graph.objs) :
            paths.result = PathsToRoots(graph, allObjects, paths.from, paths.maxPaths)


(***************************************************************************)
(* SpecRegistry: threads calling heapdump.Register and heapdump.Open on    *)
(* the process-wide registry.  An adapter is known by the thread that      *)
(* registers it and by its kind, which says which previews its CanParse    *)
(* accepts.                                                                *)
(***************************************************************************)
MaxThreads == 3      \* threads calling Register or Open
MaxInputLen == 2     \* bytes of the readers handed to Open

AdapterKinds == {"any", "one", "two"}

\* Parser.CanParse on the preview: "any" accepts every preview, "one" a
\* preview that starts with byte 1, "two" a preview of at least two bytes.
Accepts(kind, preview) ==
    CASE kind = "any" -> TRUE
      [] kind = "one" -> Len(preview) >= 1 /\ preview[1] = 1
      [] OTHER        -> Len(preview) >= 2

Adapter(t, kind) == [by |-> t, kind |-> kind]

NoOut == [returned |-> FALSE, parser |-> Adapter(0, "none"), err |-> "", stream |-> <<>>]

\* A thread about to call Register(Adapter(t, kind)) or Open(reader).
NewThread(op, kind) ==
    [op |-> op, kind |-> kind, pc |-> "start", old |-> <<>>, bytes |-> <<>>,
     preview |-> <<>>, seen |-> <<>>, i |-> 0, asked |-> <<>>, out |-> NoOut]

step(t, th, reg) ==
    /\ threads' = [threads EXCEPT ![t] = th]
    /\ parserRegistry' = reg
    /\ UNCHANGED <<pc, graph, idom, retained, input, gp, sp, calls, result,
                   reporter, paths>>

\* A lock that everybody gets.
canLockAlways(mu) == TRUE

\* mu.Lock() returns: nobody holds the lock.
canLock(mu) == mu.writer = 0 /\ mu.readers = 0

\* mu.RLock() returns: nobody holds the write lock.
canRLock(mu) == mu.writer = 0

\* Register: registry.mu.Lock()
RegisterLock(t) ==
    /\ threads[t].op = "Register"
    /\ threads[t].pc = "start"
    /\ canLock(parserRegistry.mu)
    /\ step(t, [threads[t] EXCEPT !.pc = "load"],
            [parserRegistry EXCEPT !.mu.writer = t])

\* Register: the slice that append reads
RegisterLoad(t) ==
    /\ threads[t].pc = "load"
    /\ step(t, [threads[t] EXCEPT !.pc = "store", !.old = parserRegistry.parsers],
            parserRegistry)

\* Register: registry.parsers = append(registry.parsers, p)
RegisterStore(t) ==
    /\ threads[t].pc = "store"
    /\ step(t, [threads[t] EXCEPT !.pc = "unlock"],
            [parserRegistry EXCEPT
                !.parsers = Append(threads[t].old, Adapter(t, threads[t].kind))])

\* Register: the deferred registry.mu.Unlock(), and the return
RegisterUnlock(t) ==
    /\ threads[t].pc = "unlock"
    /\ step(t, [threads[t] EXCEPT !.pc = "done", !.out.returned = TRUE],
            [parserRegistry EXCEPT
                !.mu.writer = IF @ = t THEN 0 ELSE @])

Inputs == SeqsUpTo({1, 2}, MaxInputLen)

\* What one Read of the reader into the 4096-byte buffer may give: some
\* bytes and no error, nothing and io.EOF at the end of the reader.
ReadCounts(bytes) == IF bytes = <<>> THEN {0} ELSE 1..Len(bytes)

\* Open: n, err := tee.Read(detectBuf), and the return of a read error
OpenRead(t) ==
    /\ threads[t].op = "Open"
    /\ threads[t].pc = "start"
    /\ \E bytes \in Inputs :
          \/ \E n \in ReadCounts(bytes) :
                step(t, [threads[t] EXCEPT !.pc = "rlock", !.bytes = bytes,
                                           !.preview = SubSeq(bytes, 1, n)],
                     parserRegistry)
          \/ step(t, [threads[t] EXCEPT
                         !.pc = "done", !.bytes = bytes,
                         !.out = [NoOut EXCEPT !.returned = TRUE, !.err = "read error"]],
                  parserRegistry)

\* A loop that passes over the first parser.
startIndexSecond(seen) == 2

\* "for _, parser := range registry.parsers" starts at the first parser.
startIndex(seen) == 1

\* Open: registry.mu.RLock(), and the slice the loop ranges over
OpenRLock(t) ==
    /\ threads[t].pc = "rlock"
    /\ canRLock(parserRegistry.mu)
    /\ step(t, [threads[t] EXCEPT !.pc = "loop", !.seen = parserRegistry.parsers,
                                  !.i = startIndex(parserRegistry.parsers)],
            [parserRegistry EXCEPT !.mu.readers = @ + 1])

\* registry.mu.RUnlock()
runlocked(reg) == [reg EXCEPT !.mu.readers = @ - 1]

\* parser.Parse(io.MultiReader(bytes.NewReader(detectBuf[:n]), r)): the
\* parser reads the preview and then what the reader has left.
parsed(th, parser) ==
    [NoOut EXCEPT !.returned = TRUE, !.parser = parser,
                  !.stream = th.preview
                             \o SubSeq(th.bytes, Len(th.preview) + 1, Len(th.bytes))]

\* Open: one turn of the loop: CanParse, and Parse if it accepts
OpenAsk(t) ==
    /\ threads[t].pc = "loop"
    /\ threads[t].i <= Len(threads[t].seen)
    /\ IF Accepts(threads[t].seen[threads[t].i].kind, threads[t].preview)
       THEN step(t, [threads[t] EXCEPT
                        !.pc = "done",
                        !.asked = Append(@, threads[t].seen[threads[t].i]),
                        !.out = parsed(threads[t], threads[t].seen[threads[t].i])],
                 runlocked(parserRegistry))
       ELSE step(t, [threads[t] EXCEPT
                        !.i = @ + 1,
                        !.asked = Append(@, threads[t].seen[threads[t].i])],
                 parserRegistry)

\* Open: return nil, ErrNoParser
OpenNoParser(t) ==
    /\ threads[t].pc = "loop"
    /\ threads[t].i > Len(threads[t].seen)
    /\ step(t, [threads[t] EXCEPT
                   !.pc = "done",
                   !.out = [NoOut EXCEPT !.returned = TRUE,
                                         !.err = "no parser found for dump format"]],
            runlocked(parserRegistry))

InitRegistry ==
    /\ pc = "registry"
    /\ threads \in [1..MaxThreads ->
                       {NewThread("Register", k) : k \in AdapterKinds}
                       \cup {NewThread("Open", "none")}]
    /\ parserRegistry = NoRegistry
    /\ graph = NoGraph
    /\ idom = EmptyMap
    /\ retained = EmptyMap
    /\ input = NoInput
    /\ gp = <<>>
    /\ sp = <<>>
    /\ calls = <<>>
    /\ result = NoResult
    /\ reporter = NoReporter
    /\ paths = <<>>

NextRegistry ==
    \E t \in DOMAIN threads :
        \/ RegisterLock(t)
        \/ RegisterLoad(t)
        \/ RegisterStore(t)
        \/ RegisterUnlock(t)
        \/ OpenRead(t)
        \/ OpenRLock(t)
        \/ OpenAsk(t)
        \/ OpenNoParser(t)

SpecRegistry == InitRegistry /\ [][NextRegistry]_vars


\* The Open calls that returned after reading their preview.
OpenedThreads ==
    {t \in DOMAIN threads :
        /\ threads[t].op = "Open"
        /\ threads[t].pc = "done"
        /\ threads[t].out.err # "read error"}

\* The positions of the adapters of the list Open ranged over that accept
\* its preview.
Accepting(t) ==
    {i \in DOMAIN threads[t].seen :
        Accepts(threads[t].seen[i].kind, threads[t].preview)}

FirstAccepting(t) == CHOOSE i \in Accepting(t) : \A j \in Accepting(t) : i <= j

ReadErrorAsksNobody ==
    \A t \in DOMAIN threads :
        threads[t].out.err = "read error" => threads[t].asked = <<>>


Registering == {t \in DOMAIN threads : threads[t].op = "Register"}

\* The Register calls that have appended their adapter / have returned.
HasStored(t) == t \in Registering /\ threads[t].pc \in {"unlock", "done"}

HasRegistered(t) == t \in Registering /\ threads[t].pc = "done"

PlacesOf(t) ==
    {i \in DOMAIN parserRegistry.parsers :
        parserRegistry.parsers[i] = Adapter(t, threads[t].kind)}

IsPrefix(a, b) == Len(a) <= Len(b) /\ SubSeq(b, 1, Len(a)) = a

\* C23: with Register and Open called concurrently, the list holds the
\* adapter of every Register call that has appended exactly once and holds
\* nothing else, and an Open that is choosing ranges over the whole current
\* list, all of whose adapters come from Register calls that have returned;
\* the list an earlier Open ranged over is a prefix of the current one.
C23_RegistryIsThreadSafe ==
    /\ \A t \in Registering :
          Cardinality(PlacesOf(t)) = IF HasStored(t) THEN 1 ELSE 0
    /\ Len(parserRegistry.parsers) = Cardinality({t \in Registering : HasStored(t)})
    /\ \A t \in DOMAIN threads :
          /\ threads[t].pc = "loop" =>
                /\ threads[t].seen = parserRegistry.parsers
                /\ \A i \in DOMAIN threads[t].seen :
                      HasRegistered(threads[t].seen[i].by)
          /\ IsPrefix(threads[t].seen, parserRegistry.parsers)

\* An Open holding the read lock is choosing among one registered adapter
\* while a Register call waits for the lock.
C23_Witness ==
    \E t, u, v \in DOMAIN threads :
        /\ threads[t].pc = "loop"
        /\ Len(threads[t].seen) = 1
        /\ threads[u].op = "Register"
        /\ threads[u].pc = "start"
        /\ parserRegistry.mu.readers >= 1
        /\ HasRegistered(v)

\* A Register call appends to the end of the list, and nothing else changes
\* the list.
RegisterAppends ==
    [][\/ parserRegistry'.parsers = parserRegistry.parsers
       \/ \E t \in Registering :
             parserRegistry'.parsers
                = Append(parserRegistry.parsers, Adapter(t, threads[t].kind))]_vars

\* The lock is held by one writer or by readers, never by both.
LockExcludes ==
    /\ ~(parserRegistry.mu.writer # 0 /\ parserRegistry.mu.readers > 0)
    /\ \A t \in DOMAIN threads :
          threads[t].pc \in {"load", "store", "unlock"} => parserRegistry.mu.writer = t


(***************************************************************************)
(* SpecSlices: the slices parseObject takes of an object's contents, with  *)
(* the decoded values in their 64 bits.  A uint64 is kept as four 16-bit   *)
(* limbs, the most significant first.                                      *)
(***************************************************************************)
Limb == 2 ^ 16

\* uint64(n) for a small n
FromInt(n) == <<0, 0, n \div Limb, n % Limb>>

\* x*128 + d in 64 bits, limb by limb from the least significant
mulAdd(x, k, carry, acc) ==
    [acc EXCEPT ![k] = (x[k] * 128 + carry) % Limb]

RECURSIVE shiftIn(_, _, _, _)
shiftIn(x, k, carry, acc) ==
    IF k = 0 THEN acc
    ELSE shiftIn(x, k - 1, (x[k] * 128 + carry) \div Limb, mulAdd(x, k, carry, acc))

\* binary.ReadUvarint of a whole varint: x |= uint64(b&0x7f) << s for each
\* byte, the last byte first here.
RECURSIVE Uvarint64(_, _)
Uvarint64(bs, k) ==
    IF k > Len(bs) THEN FromInt(0)
    ELSE shiftIn(Uvarint64(bs, k + 1), 4, bs[k] % 128, FromInt(0))

\* x + y in uint64
RECURSIVE addFrom(_, _, _, _, _)
addFrom(x, y, k, carry, acc) ==
    IF k = 0 THEN acc
    ELSE addFrom(x, y, k - 1, (x[k] + y[k] + carry) \div Limb,
                 [acc EXCEPT ![k] = (x[k] + y[k] + carry) % Limb])

Add64(x, y) == addFrom(x, y, 4, 0, FromInt(0))

\* x <= y as uint64
RECURSIVE leqFrom(_, _, _)
leqFrom(x, y, k) ==
    IF k > 4 THEN TRUE
    ELSE IF x[k] # y[k] THEN x[k] < y[k]
    ELSE leqFrom(x, y, k + 1)

Leq64(x, y) == leqFrom(x, y, 1)

\* int(x) < 0: the conversion keeps the bits
IsNegative(x) == x[1] >= Limb \div 2

\* int(x) <= n for a length n
IntLeq(x, n) == IsNegative(x) \/ Leq64(x, FromInt(n))

\* data[low:high] is within data: low <= high <= cap(data), and
\* cap(data) = len(data) for the slice readBytes makes.
InBounds(low, high, data) == Leq64(low, high) /\ Leq64(high, FromInt(Len(data)))

\* int(offset+p.pointerSize) <= len(data)
fieldGuard(offset, pointerSize, data) ==
    IntLeq(Add64(offset, pointerSize), Len(data))

\* len(data) >= int(p.pointerSize)
typeAddrGuard(pointerSize, data) == IntLeq(pointerSize, Len(data))

\* The varints the sizes and offsets are decoded from: 0, 4, 8, 2^63 - 8,
\* 2^63, 2^64 - 8 and 2^64 - 1.
VarintSamples ==
    { <<0>>, <<4>>, <<8>>,
      <<248, 255, 255, 255, 255, 255, 255, 255, 127>>,
      <<128, 128, 128, 128, 128, 128, 128, 128, 128, 1>>,
      <<248, 255, 255, 255, 255, 255, 255, 255, 255, 1>>,
      <<255, 255, 255, 255, 255, 255, 255, 255, 255, 1>> }

DataSamples ==
    { <<>>, <<64, 0, 0, 0>>, <<64, 0, 0, 0, 33, 0, 0, 0>>,
      <<64, 0, 0, 0, 0, 0, 0, 0, 33, 0, 0, 0, 0, 0, 0, 0>> }

Slice(low, high) == [low |-> low, high |-> high]

\* A slice expression: the slice, or the run-time panic "slice bounds out
\* of range", which nothing in the parsers recovers from.
takeSlice(low, high, next) ==
    IF InBounds(low, high, input.data)
    THEN /\ calls' = Append(calls, Slice(low, high))
         /\ pc' = next
    ELSE /\ pc' = "panic"
         /\ UNCHANGED calls

afterTypeAddr == IF input.parser = "StreamingParser" THEN "field" ELSE "done"

afterField == IF input.parser = "StreamingParser" THEN "done" ELSE "typeAddr"

\* parseObject: the type address, data[:pointerSize]
TakeTypeAddress ==
    /\ pc = "typeAddr"
    /\ IF typeAddrGuard(input.pointerSize, input.data)
       THEN takeSlice(FromInt(0), input.pointerSize, afterTypeAddr)
       ELSE pc' = afterTypeAddr /\ UNCHANGED calls
    /\ UNCHANGED <<graph, idom, retained, input, gp, sp, result, reporter, paths,
                   parserRegistry, threads>>

\* parseObject: a field, data[offset : offset+pointerSize]
TakeField ==
    /\ pc = "field"
    /\ IF input.fieldKind = fieldKindPtr
          /\ fieldGuard(input.offset, input.pointerSize, input.data)
       THEN takeSlice(input.offset, Add64(input.offset, input.pointerSize), afterField)
       ELSE pc' = afterField /\ UNCHANGED calls
    /\ UNCHANGED <<graph, idom, retained, input, gp, sp, result, reporter, paths,
                   parserRegistry, threads>>

InitSlices ==
    /\ \E parser \in {"GoHeapParser", "StreamingParser"} :
       \E pointerSize \in VarintSamples : \E offset \in VarintSamples :
       \E data \in DataSamples : \E kind \in 1..3 :
          /\ input = [parser |-> parser,
                      pointerSize |-> Uvarint64(pointerSize, 1),
                      offset |-> Uvarint64(offset, 1),
                      data |-> data, fieldKind |-> kind]
          /\ pc = IF parser = "StreamingParser" THEN "typeAddr" ELSE "field"
    /\ graph = NoGraph
    /\ idom = EmptyMap
    /\ retained = EmptyMap
    /\ gp = <<>>
    /\ sp = <<>>
    /\ calls = <<>>
    /\ result = NoResult
    /\ reporter = NoReporter
    /\ parserRegistry = NoRegistry
    /\ threads = <<>>
    /\ paths = <<>>

NextSlices == TakeTypeAddress \/ TakeField

SpecSlices == InitSlices /\ [][NextSlices]_vars

\* C24: the parsers never panic: every slice of an object's contents taken
\* at a decoded offset or with the decoded pointer size is within the
\* contents.
C24_SlicesStayInBounds == pc # "panic"

\* A value below 2^62.
IsModest(x) == x[1] < Limb \div 4

\* With a pointer size and an offset below 2^62 no slice leaves the
\* contents.
ModestValuesStayInBounds ==
    (IsModest(input.pointerSize) /\ IsModest(input.offset)) => pc # "panic"

\* The decoding of the samples: 2^63 and 2^64 - 1.
SamplesAreDecoded ==
    /\ Uvarint64(<<128, 128, 128, 128, 128, 128, 128, 128, 128, 1>>, 1)
          = <<Limb \div 2, 0, 0, 0>>
    /\ Uvarint64(<<255, 255, 255, 255, 255, 255, 255, 255, 255, 1>>, 1)
          = <<Limb - 1, Limb - 1, Limb - 1, Limb - 1>>
    /\ Uvarint64(<<248, 255, 255, 255, 255, 255, 255, 255, 127>>, 1)
          = <<Limb \div 2 - 1, Limb - 1, Limb - 1, Limb - 8>>
    /\ Add64(Uvarint64(<<248, 255, 255, 255, 255, 255, 255, 255, 255, 1>>, 1),
             FromInt(8)) = FromInt(0)

(***************************************************************************)
(* SpecObject: StreamingParser.Parse on dumps of one Params record and one *)
(* Object record, with both byte orders, pointer sizes 4 and 8, and field  *)
(* lists of pointer (1), iface (2) and eface (3) fields.                   *)
(***************************************************************************)
MaxFields == 2  \* fields of the Object record
MaxWords == 2   \* pointer-size words in the contents of the Object record

\* The words written into the contents.  TLC's integers end at 2^31 - 1, so
\* the words and the offsets below are chosen for every word the parser
\* reads to stay under it.
WordValues == {0, 64, 289}
TailSamples == {<<>>, <<7, 0>>}
FieldOffsets(pointerSize) ==
    {0, pointerSize, 2 * pointerSize} \cup (IF pointerSize = 4 THEN {2} ELSE {})

RECURSIVE LittleEndianBytes(_, _)
LittleEndianBytes(v, n) ==
    IF n = 0 THEN <<>> ELSE <<v % 256>> \o LittleEndianBytes(v \div 256, n - 1)

RECURSIVE BigEndianBytes(_, _)
BigEndianBytes(v, n) ==
    IF n = 0 THEN <<>> ELSE BigEndianBytes(v \div 256, n - 1) \o <<v % 256>>

WordBytes(v, pointerSize, bigEndian) ==
    IF bigEndian THEN BigEndianBytes(v, pointerSize)
    ELSE LittleEndianBytes(v, pointerSize)

ContentsOf(words, tail, pointerSize, bigEndian) ==
    Flatten([i \in DOMAIN words |-> WordBytes(words[i], pointerSize, bigEndian)])
        \o tail

\* The records as the dump format lays them out; every number is below 128
\* and so a varint of one byte.
ParamsOf(bigEndian, pointerSize) ==
    <<tagParams, IF bigEndian THEN 1 ELSE 0, pointerSize, 0, 0, 1, 97, 0, 1>>

ObjectOf(addr, data, fields) ==
    <<tagObject, addr, Len(data)>> \o data \o Flatten(fields) \o <<fieldKindEol>>

ObjectDump(bigEndian, pointerSize, data, fields) ==
    [kind |-> "dump",
     bytes |-> Header \o ParamsOf(bigEndian, pointerSize)
                  \o ObjectOf(32, data, fields) \o EOFRecord,
     long |-> FALSE, objectsNull |-> FALSE, objects |-> <<>>, roots |-> <<>>,
     object |-> [bigEndian |-> bigEndian, pointerSize |-> pointerSize,
                 data |-> data, fields |-> fields]]

InitObject ==
    /\ pc = "StreamingParser"
    /\ \E bigEndian \in BOOLEAN : \E pointerSize \in {4, 8} :
       \E words \in SeqsUpTo(WordValues, MaxWords) : \E tail \in TailSamples :
       \E fields \in SeqsUpTo((1 .. 3) \X FieldOffsets(pointerSize), MaxFields) :
          input = ObjectDump(bigEndian, pointerSize,
                             ContentsOf(words, tail, pointerSize, bigEndian), fields)
    /\ sp = NewStreamingParser(0, FALSE, Callbacks("none", TRUE, "nil"))
    /\ graph = NoGraph
    /\ idom = EmptyMap
    /\ retained = EmptyMap
    /\ gp = <<>>
    /\ calls = <<>>
    /\ result = NoResult
    /\ reporter = NoReporter
    /\ parserRegistry = NoRegistry
    /\ threads = <<>>
    /\ paths = <<>>

NextObject ==
    \/ StreamParseHeader
    \/ StreamParams
    \/ StreamRecord
    \/ StreamEOFRecord

SpecObject == InitObject /\ [][NextObject]_vars

\* The integer stored in the size bytes of data behind offset, in the given
\* byte order: the sum of the bytes, each times the power of 256 of its place.
RECURSIVE StoredFrom(_, _, _, _, _)
StoredFrom(data, offset, size, bigEndian, i) ==
    IF i > size THEN 0
    ELSE (IF data[offset + i] = 0 THEN 0
          ELSE data[offset + i] * 256 ^ (IF bigEndian THEN size - i ELSE i - 1))
         + StoredFrom(data, offset, size, bigEndian, i + 1)

Stored(data, offset, size, bigEndian) == StoredFrom(data, offset, size, bigEndian, 1)

\* The kind-1 fields of the record whose pointer-size bytes lie within the
\* contents, in field order; their values; the non-zero ones of those.
PointerFieldsWithin(o) ==
    SelectSeq(o.fields, LAMBDA f : f[1] = fieldKindPtr /\ f[2] + o.pointerSize <= Len(o.data))

ValuesAt(o, fs) ==
    [i \in DOMAIN fs |-> Stored(o.data, fs[i][2], o.pointerSize, o.bigEndian)]

NonZero(values) == SelectSeq(values, LAMBDA v : v # 0)

\* C25: for an Object record decoded after a Params record with pointer size
\* 4 or 8, OnObject receives as type address the integer stored in the first
\* pointer-size bytes of the contents, in the byte order of Params, and as
\* pointer list, in field order, exactly the non-zero pointer-size values at
\* the offsets of the kind-1 fields that lie within the contents; fields of
\* kind 2 or 3 contribute nothing.  (Contents shorter than a pointer have no
\* such first bytes; the type address is then 0.)
C25_ObjectArguments ==
    \A i \in CallsOf("OnObject") :
        /\ calls[i].args.typeAddr =
              IF Len(input.object.data) >= input.object.pointerSize
              THEN Stored(input.object.data, 0, input.object.pointerSize,
                          input.object.bigEndian)
              ELSE 0
        /\ calls[i].args.pointers =
              NonZero(ValuesAt(input.object, PointerFieldsWithin(input.object)))

\* A big-endian dump with 8-byte pointers: the iface field at 0 gives no
\* pointer, the pointer field at 8 gives 289, the type address is 64.
C25_Witness ==
    /\ pc = "done"
    /\ input.object.bigEndian
    /\ input.object.pointerSize = 8
    /\ input.object.fields = <<<<2, 0>>, <<1, 8>>>>
    /\ \E i \in CallsOf("OnObject") :
          calls[i].args.typeAddr = 64 /\ calls[i].args.pointers = <<289>>

\* OnObject is called once for the record, with the address and the contents
\* of the record.
ObjectIsDelivered ==
    pc = "done" =>
        /\ Cardinality(CallsOf("OnObject")) = 1
        /\ \A i \in CallsOf("OnObject") :
              calls[i].args.addr = 32 /\ calls[i].args.data = input.object.data

\* A pointer field that reaches beyond the contents, and a zero word under a
\* pointer field, leave the pointer list empty.
FieldBeyondContentsGivesNothing ==
    (/\ pc = "done"
     /\ Len(input.object.fields) = 1
     /\ input.object.fields[1][1] = fieldKindPtr
     /\ input.object.fields[1][2] + input.object.pointerSize > Len(input.object.data))
        => \A i \in CallsOf("OnObject") : calls[i].args.pointers = <<>>

(***************************************************************************)
(* SpecSchema: the record function of each tag 1 to 17, of GoHeapParser    *)
(* and of StreamingParser, applied to a well-formed record of that tag     *)
(* that another record follows.                                            *)
(***************************************************************************)
\* The numbers, strings and field lists the records are filled with; every
\* number is a varint of one byte.
SchemaValues == {0, 1, 3}
SchemaStrings == {<<>>, <<97, 98>>}
SchemaFieldLists == {<<fieldKindEol>>, <<fieldKindPtr, 0, fieldKindEol>>}
SchemaFollowers == {EOFRecord, ItabRecord \o EOFRecord}

Varints(n, v) == [i \in 1 .. n |-> v]

\* A string or a byte slice: its length, then its bytes.
Prefixed(str) == <<Len(str)>> \o str

\* MemProf's frames: nstk times function, file, line.
RECURSIVE Frames(_, _, _)
Frames(nstk, v, str) ==
    IF nstk = 0 THEN <<>>
    ELSE Prefixed(str) \o Prefixed(str) \o <<v>> \o Frames(nstk - 1, v, str)

\* The payload of a record of each tag, as the dump format's table of
\* records lays it out.
Payload(tag, v, str, fl) ==
    CASE tag = tagObject -> <<v>> \o Prefixed(str) \o fl
      [] tag = tagOtherRoot -> Prefixed(str) \o <<v>>
      [] tag = tagType -> <<v, v>> \o Prefixed(str) \o <<v>>
      [] tag = tagGoroutine -> Varints(7, v) \o Prefixed(str) \o Varints(4, v)
      [] tag = tagStackFrame ->
            Varints(3, v) \o Prefixed(str) \o Varints(3, v) \o Prefixed(str) \o fl
      [] tag = tagParams -> Varints(4, v) \o Prefixed(str) \o Prefixed(str) \o <<v>>
      [] tag \in {tagFinalizer, tagQueuedFinalizer} -> Varints(5, v)
      [] tag = tagItab -> Varints(2, v)
      [] tag = tagOSThread -> Varints(3, v)
      [] tag = tagMemStats -> Varints(61, v)
      [] tag \in {tagData, tagBSS} -> <<v>> \o Prefixed(str) \o fl
      [] tag = tagDefer -> Varints(7, v)
      [] tag = tagPanic -> Varints(6, v)
      [] tag = tagMemProf -> <<v, v, v>> \o Frames(v, v, str) \o <<v, v>>
      [] tag = tagAllocSample -> Varints(5, v)

\* Parse's switch of StreamingParser: the record function of a tag.
streamDispatch(b, tag, p, at) ==
    CASE tag = tagParams -> streamParseParams(b, p, at)
      [] tag = tagType -> streamParseType(b, p, at)
      [] OTHER -> streamRecord(b, tag, p, at)

\* Where a parser stands after the record function, and the error of it.
readBy(parser, pos, err) == [returned |-> TRUE, parser |-> parser, err |-> err, pos |-> pos]

readByParser(p) == readBy("GoHeapParser", p.pos, p.err)

readByStreaming(out) == readBy("StreamingParser", out.p.pos, out.err)

\* GoHeapParser: the tag is read, then the record function of the tag runs.
GoHeapReadsRecord ==
    /\ pc = "record"
    /\ input.parser = "GoHeapParser"
    /\ result' = readByParser(parseRecord(input.bytes, input.tag,
                     [NewParser EXCEPT !.pos = nextTag(input.bytes, gp).pos]))
    /\ pc' = "read"
    /\ UNCHANGED <<graph, idom, retained, input, gp, sp, calls, reporter, paths,
                   parserRegistry, threads>>

\* StreamingParser: the same; OnType is not set and no callback fails.
StreamingReadsRecord ==
    /\ pc = "record"
    /\ input.parser = "StreamingParser"
    /\ result' = readByStreaming(streamDispatch(input.bytes, input.tag,
                     afterTag(sp, nextTag(input.bytes, sp)), sp.pos))
    /\ pc' = "read"
    /\ UNCHANGED <<graph, idom, retained, input, gp, sp, calls, reporter, paths,
                   parserRegistry, threads>>

InitSchema ==
    /\ pc = "record"
    /\ \E parser \in {"GoHeapParser", "StreamingParser"} : \E tag \in KnownTags :
       \E v \in SchemaValues : \E str \in SchemaStrings :
       \E fl \in SchemaFieldLists : \E follower \in SchemaFollowers :
          input = [parser |-> parser, tag |-> tag,
                   record |-> <<tag>> \o Payload(tag, v, str, fl),
                   bytes |-> Header \o <<tag>> \o Payload(tag, v, str, fl) \o follower]
    /\ gp = [NewParser EXCEPT !.pos = HeaderLen + 1]
    /\ sp = [NewStreamingParser(0, FALSE, Callbacks("none", FALSE, "nil"))
                EXCEPT !.pos = HeaderLen + 1]
    /\ graph = NoGraph
    /\ idom = EmptyMap
    /\ retained = EmptyMap
    /\ calls = <<>>
    /\ result = NoResult
    /\ reporter = NoReporter
    /\ parserRegistry = NoRegistry
    /\ threads = <<>>
    /\ paths = <<>>

NextSchema == GoHeapReadsRecord \/ StreamingReadsRecord

SpecSchema == InitSchema /\ [][NextSchema]_vars

\* The record function returned without error where the following record
\* begins.
ConsumedExactly ==
    result.err = "" /\ result.pos = HeaderLen + Len(input.record) + 1

\* C26: for every tag 1 to 17 both parsers consume exactly the payload of
\* the record of that tag, so that the next tag is read at the first byte of
\* the following record.
C26_RecordsConsumedExactly == pc = "read" => ConsumedExactly

\* The tags whose record function reads what the table of records says.
GoHeapExactTags ==
    {tagObject, tagOtherRoot, tagType, tagStackFrame, tagParams, tagFinalizer,
     tagItab, tagOSThread, tagQueuedFinalizer, tagData, tagBSS, tagMemProf}

StreamingExactTags ==
    {tagObject, tagOtherRoot, tagType, tagGoroutine, tagParams, tagFinalizer,
     tagQueuedFinalizer, tagAllocSample}

\* GoHeapParser consumes the records of these tags exactly.
GoHeapConsumesExactly ==
    (pc = "read" /\ input.parser = "GoHeapParser" /\ input.tag \in GoHeapExactTags)
        => ConsumedExactly

\* StreamingParser consumes the records of these tags exactly: the ones it
\* has a record function for, and the ones of five varints.
StreamingConsumesExactly ==
    (pc = "read" /\ input.parser = "StreamingParser"
        /\ input.tag \in StreamingExactTags) => ConsumedExactly

\* GoHeapParser stops after 8 of the 61 varints of MemStats and after 5 of
\* the 7 and 6 of Defer and Panic; StreamingParser after 5 of the 61.
StopsInsideTheRecord ==
    (pc = "read" /\ result.err = "") =>
        /\ (input.parser = "GoHeapParser" /\ input.tag = tagMemStats)
              => result.pos = HeaderLen + 1 + 8 + 1
        /\ (input.parser = "GoHeapParser" /\ input.tag \in {tagDefer, tagPanic})
              => result.pos = HeaderLen + 1 + 5 + 1
        /\ (input.parser = "StreamingParser" /\ input.tag = tagMemStats)
              => result.pos = HeaderLen + 1 + 5 + 1

(***************************************************************************)
(* SpecSubsets: RetainedSize and then RetainedSizeSubsets on the generated *)
(* graphs, for target lists over the ids of the graph and ids next to them.*)
(***************************************************************************)
MaxTargets == 2  \* entries in targetIDs

\* "for _, targetID := range targetIDs": r = [computed, result] after the
\* targets before the k-th.
RECURSIVE subsetsLoop(_, _, _, _, _)
storeTarget(targetID, computed, r) ==
    [computed |-> computed, result |-> Put(r.result, targetID, computed[targetID])]

subsetsLoop(targetIDs, k, tree, sizes, r) ==
    IF k > Len(targetIDs) THEN r.result
    ELSE subsetsLoop(targetIDs, k + 1, tree, sizes,
            IF targetIDs[k] \in DOMAIN sizes /\ targetIDs[k] # 0
            THEN storeTarget(targetIDs[k],
                             computeRetained(targetIDs[k], tree, sizes, r.computed), r)
            ELSE r)

\* The function behind the dominator tree: nothing is computed for an empty
\* target list, which returns before the tree is built.
subsetsOfTree(g, targetIDs, tree) ==
    IF Len(targetIDs) = 0 THEN EmptyMap
    ELSE subsetsLoop(targetIDs, 1, tree, objSizes(g),
                     [computed |-> EmptyMap, result |-> EmptyMap])

RetainedSizeSubsets(g, targetIDs, allObjects) ==
    subsetsOfTree(g, targetIDs, DominatorTree(Dominators(g, allObjects)))

TargetIDs == 0 .. MaxObjects + 1

\* One call: the tree of its own Dominators call, then the targets.
CallRetainedSizeSubsets ==
    /\ pc = "retained"
    /\ \E allObjects \in Perms(graph.objs) :
       \E tree \in {DominatorTree(Dominators(graph, allObjects))} :
       \E targetIDs \in SeqsUpTo(TargetIDs, MaxTargets) :
          result' = [returned |-> TRUE, targetIDs |-> targetIDs,
                     subsets |-> subsetsOfTree(graph, targetIDs, tree)]
    /\ pc' = "subsets"
    /\ UNCHANGED <<graph, idom, retained, input, gp, sp, calls, reporter, paths,
                   parserRegistry, threads>>

InitSubsets == InitGraph

NextSubsets == CallDominators \/ CallRetainedSize \/ CallRetainedSizeSubsets

SpecSubsets == InitSubsets /\ [][NextSubsets]_vars

\* C27: RetainedSizeSubsets(g, targets) is RetainedSize(g) restricted to the
\* targets: a target has an entry exactly when RetainedSize(g) has one for
\* it, with the same value, and nothing else has an entry; so the ids that
\* are not in the graph or not reachable from a root have none.
C27_SubsetsIsRestriction ==
    pc = "subsets" =>
        /\ DOMAIN result.subsets = Range(result.targetIDs) \cap DOMAIN retained
        /\ \A t \in DOMAIN result.subsets : result.subsets[t] = Get(retained, t, 0)
        /\ DOMAIN result.subsets \subseteq Reachable(graph)

\* Only targets that are objects of the graph have an entry, and never
\* the id 0.
SubsetsHoldsObjectsOfTheTargets ==
    pc = "subsets" =>
        DOMAIN result.subsets \subseteq
            (Range(result.targetIDs) \cap graph.objs) \ {SuperRootID}

\* A target that RetainedSize has an entry for has one in the subset result.
SubsetsCoversRetained ==
    pc = "subsets" =>
        (Range(result.targetIDs) \cap DOMAIN retained) \subseteq DOMAIN result.subsets

\* On the graphs without an object 0 the reachable targets have the value
\* RetainedSize gives them.
SubsetsAgreesOnReachable ==
    (pc = "subsets" /\ ~HasObject(graph, SuperRootID)) =>
        \A t \in DOMAIN result.subsets \cap Reachable(graph) :
            result.subsets[t] = Get(retained, t, 0)

\* A target that is an object other than 0 has an entry even when no root
\* reaches it.
UnreachableTargetHasEntry ==
    pc = "subsets" =>
        \A t \in Range(result.targetIDs) :
            (t \in graph.objs /\ t # SuperRootID) => t \in DOMAIN result.subsets

====
